---------------------------- MODULE Spec2Model ----------------------------
(***************************************************************************)
(* Model of buildpy.py (shakfu/buildpy-bundler): the shell-command         *)
(* wrapper, the extension-module configuration buckets, the builder        *)
(* pipeline and the reduction workflows, as state machines.                *)
(***************************************************************************)
EXTENDS Integers, Sequences, FiniteSets, TLC

VARIABLES
    shell,      \* record of the last ShellCmd.cmd call: inputs, environment, result
    platform,   \* buildpy.PLATFORM: "Darwin", "Linux" or "Windows"
    cfg,        \* the Config object's cfg dict (buckets, extensions) and raised error
    cfgLog,     \* what was last done to cfg: phase, operation, names, cfg before it
    base,       \* the module-level BASE_CONFIG dict as it is at run time
    bld,        \* a dependency Builder and its files: archive, source dir, lib products
    bldLog,     \* the last Builder call: what it found, what it did, how it ended
    dest,       \* what is at the destination path of a download
    dlCall,     \* the last download() call: arguments, what it did, how it ended
    unpacked,   \* the files and symlinks an extraction has created, by resolved path
    builder,    \* the PythonBuilder's instance attributes
    cls,        \* the PythonBuilder's class-level lists
    fs,         \* the python build trees under the project, by prefix
    buildTmp,   \* build/lib-dynload and build/os.py[c], the temporary places of ziplib
    pkgTemp,    \* build/pkg_temp
    deps,       \* the dependency builders' files
    out,        \* the reduction manifest file
    ar,         \* the frame of a running auto_reduce: position and locals
    pr,         \* the frame of a running process(): position
    call,       \* the top-level call in progress or just ended: entry state, result
    log         \* the calls made on behalf of the top-level call, in order

shellVars == <<shell>>
cfgVars == <<cfg, cfgLog, base>>
downloadVars == <<dest, dlCall, unpacked>>
setupVars == <<bld, bldLog, downloadVars>>
builderVars == <<builder, cls, fs, buildTmp, pkgTemp, deps, out, ar, pr, call, log>>
vars == <<shell, platform, cfg, cfgLog, base, bld, bldLog, dest, dlCall, unpacked,
          builder, cls, fs, buildTmp, pkgTemp, deps, out, ar, pr, call, log>>

Range(s) == {s[i] : i \in 1..Len(s)}

RECURSIVE SeqsUpTo(_, _)
\* all sequences over S of length 0..n
SeqsUpTo(S, n) ==
    IF n = 0 THEN {<<>>}
    ELSE LET shorter == SeqsUpTo(S, n - 1)
         IN  shorter \cup {Append(s, x) : s \in shorter, x \in S}

(***************************************************************************)
(* ShellCmd.cmd                                                            *)
(***************************************************************************)

\* bounds of the command inputs
MaxCmdLen == 3
MaxArgs == 2
MaxStatus == 2

\* characters a command string is made of in the model
CmdChars == {"a", " ", "'", ";", "|"}
\* elements of a list command
CmdWords == {"a", "b;"}

\* the substrings that make cmd() hand the string to the shell
ShellMarkers == {"|", ">", "<", "&", ";"}

needs_shell(text) == \E i \in 1..Len(text) : text[i] \in ShellMarkers

RECURSIVE shlex_scan(_, _, _, _, _, _)
\* shlex.split in POSIX mode over the model's characters: whitespace separates
\* words, a single quote opens a literal run up to the next single quote, and
\* an unclosed quote is a ValueError
shlex_scan(text, i, inQuote, cur, hasCur, toks) ==
    IF i > Len(text)
    THEN IF inQuote THEN [err |-> TRUE, argv |-> <<>>]
         ELSE [err |-> FALSE, argv |-> IF hasCur THEN Append(toks, cur) ELSE toks]
    ELSE LET c == text[i]
         IN  IF inQuote
             THEN IF c = "'"
                  THEN shlex_scan(text, i + 1, FALSE, cur, TRUE, toks)
                  ELSE shlex_scan(text, i + 1, TRUE, Append(cur, c), TRUE, toks)
             ELSE IF c = "'"
                  THEN shlex_scan(text, i + 1, TRUE, cur, TRUE, toks)
                  ELSE IF c = " "
                       THEN IF hasCur
                            THEN shlex_scan(text, i + 1, FALSE, <<>>, FALSE,
                                            Append(toks, cur))
                            ELSE shlex_scan(text, i + 1, FALSE, <<>>, FALSE, toks)
                       ELSE shlex_scan(text, i + 1, FALSE, Append(cur, c), TRUE, toks)

shlex_split(text) == shlex_scan(text, 1, FALSE, <<>>, FALSE, <<>>)

\* subprocess.check_call of an argument list: no program to run is an
\* IndexError, a program that is not found a FileNotFoundError, and a nonzero
\* exit status a CalledProcessError
check_call_ignoring_status(argv, found, status) ==
    IF argv = <<>> THEN "IndexError"
    ELSE IF ~found THEN "FileNotFoundError"
    ELSE "returned"

check_call(argv, found, status) ==
    IF argv = <<>> THEN "IndexError"
    ELSE IF ~found THEN "FileNotFoundError"
    ELSE IF status # 0 THEN "CalledProcessError"
    ELSE "returned"

\* the status the command exits with when it is run through the shell: the
\* shell itself is always found, and reports a missing program as 127
shell_status(found, status) == IF found THEN status ELSE 127

\* subprocess.check_call(text, shell=True)
check_call_shell(text, found, status) ==
    IF shell_status(found, status) # 0 THEN "CalledProcessError" ELSE "returned"

\* what the subprocess call inside cmd() ends with
cmd_call(c, found, status) ==
    IF c.isStr
    THEN IF needs_shell(c.text)
         THEN check_call_shell(c.text, found, status)
         ELSE LET sp == shlex_split(c.text)
              IN  IF sp.err THEN "ValueError" ELSE check_call(sp.argv, found, status)
    ELSE check_call(c.argv, found, status)

\* ShellCmd.cmd: CalledProcessError is caught and raised as CommandError,
\* everything else propagates
cmd(c, found, status) ==
    LET r == cmd_call(c, found, status)
    IN  IF r = "CalledProcessError" THEN "CommandError" ELSE r

\* whether the command was started at all, and the status it exited with
cmd_ran(c, found) ==
    IF c.isStr
    THEN IF needs_shell(c.text) THEN TRUE
         ELSE LET sp == shlex_split(c.text)
              IN  ~sp.err /\ sp.argv # <<>> /\ found
    ELSE c.argv # <<>> /\ found

cmd_exit(c, found, status) ==
    IF c.isStr /\ needs_shell(c.text) THEN shell_status(found, status) ELSE status

Commands ==
    [isStr : {TRUE}, text : SeqsUpTo(CmdChars, MaxCmdLen), argv : {<<>>}]
    \cup [isStr : {FALSE}, text : {<<>>}, argv : SeqsUpTo(CmdWords, MaxArgs)]

NoCall == [called |-> FALSE]

ShellInit == shell = NoCall

\* one call of cmd() with any command, in any environment
CmdCall ==
    /\ \E c \in Commands, found \in BOOLEAN, status \in 0..MaxStatus :
        shell' = [called |-> TRUE, command |-> c, usedShell |-> c.isStr /\ needs_shell(c.text),
                  ran |-> cmd_ran(c, found),
                  exit |-> cmd_exit(c, found, status),
                  result |-> cmd(c, found, status)]
    /\ UNCHANGED <<platform, cfgVars, setupVars, builderVars>>

(***************************************************************************)
(* ShellCmd.download: the cached file, the fetch and the checksum          *)
(***************************************************************************)

\* what the destination path holds
NoFile == [kind |-> "absent"]
ADirectory == [kind |-> "dir"]
FileOf(content) == [kind |-> "file", content |-> content]

\* the bytes a file holds: the published archive, another archive, a
\* truncated transfer
Contents == {"good", "bad", "short"}

Algos == {"sha256", "md5", "sha1024"}

\* hashlib.new(algo) raises ValueError for a name it does not know
supported(algo) == algo \in {"sha256", "md5"}

\* hash_func.hexdigest(): lower-case hex digits
hexdigest(algo, content) ==
    CASE algo = "sha256" /\ content = "good" -> "ab12"
      [] algo = "sha256" /\ content = "bad" -> "0b0b"
      [] algo = "sha256" /\ content = "short" -> "0c0c"
      [] algo = "md5" /\ content = "good" -> "cd34"
      [] algo = "md5" /\ content = "bad" -> "0d0d"
      [] algo = "md5" /\ content = "short" -> "0e0e"

\* the checksum argument: None, the empty string, the sha256 digest of the
\* published archive in lower and in upper case, another digest
Checksums == {"None", "", "ab12", "AB12", "ffff"}

\* str.lower() over the checksums
lower(text) == IF text = "AB12" THEN "ab12" ELSE text

\* `if checksum:`
truthy(checksum) == checksum \notin {"None", ""}

\* ShellCmd._validate_checksum
_validate_checksum(file, expected, algo) ==
    IF ~supported(algo) THEN [err |-> "ValueError", ok |-> FALSE]
    ELSE IF file.kind = "dir" THEN [err |-> "IsADirectoryError", ok |-> FALSE]
    ELSE IF file.kind = "absent" THEN [err |-> "FileNotFoundError", ok |-> FALSE]
    ELSE [err |-> "none", ok |-> hexdigest(algo, file.content) = lower(expected)]

\* how the transfer goes: the url cannot be opened, the transfer stops short,
\* or it delivers the published archive or another one
FetchOutcomes == {"unreachable", "short", "good", "bad"}

\* urlretrieve(url, filename=_path)
urlretrieve(file, fetch) ==
    IF fetch = "unreachable" THEN [err |-> "URLError", file |-> file]
    ELSE IF file.kind = "dir" THEN [err |-> "IsADirectoryError", file |-> file]
    ELSE IF fetch = "short" THEN [err |-> "ContentTooShortError", file |-> FileOf("short")]
    ELSE [err |-> "none", file |-> FileOf(fetch)]

\* Path.unlink() on a directory
unlink_error(plat) == IF plat = "Darwin" THEN "PermissionError" ELSE "IsADirectoryError"

\* except Exception: remove what is at the path, raise DownloadError
download_failed(file, plat, unlinked) ==
    IF file.kind = "dir"
    THEN [ret |-> "None", err |-> unlink_error(plat), file |-> file,
          fetched |-> TRUE, unlinked |-> unlinked]
    ELSE [ret |-> "None", err |-> "DownloadError", file |-> NoFile,
          fetched |-> TRUE, unlinked |-> unlinked]

\* the try block of download: fetch, verify, return the path
fetch_and_verify(file, checksum, algo, fetch, plat, unlinked) ==
    LET u == urlretrieve(file, fetch)
        v == _validate_checksum(u.file, checksum, algo)
    IN  IF u.err # "none" THEN download_failed(u.file, plat, unlinked)
        ELSE IF truthy(checksum) /\ (v.err # "none" \/ ~v.ok)
             THEN download_failed(u.file, plat, unlinked)
             ELSE [ret |-> "path", err |-> "none", file |-> u.file,
                   fetched |-> TRUE, unlinked |-> unlinked]

\* ShellCmd.download. Result: the value returned, the exception, the file at
\* the destination path, whether the url was fetched, whether a cached file
\* was deleted first.
download(file, tofolder, checksum, algo, fetch, plat) ==
    LET v == _validate_checksum(file, checksum, algo)
        cached == [ret |-> "path", err |-> "none", file |-> file,
                   fetched |-> FALSE, unlinked |-> FALSE]
    IN  IF tofolder /\ file.kind # "absent"
        THEN IF truthy(checksum)
             THEN IF v.err # "none"
                  THEN [ret |-> "None", err |-> v.err, file |-> file,
                        fetched |-> FALSE, unlinked |-> FALSE]
                  ELSE IF v.ok THEN cached
                  ELSE fetch_and_verify(NoFile, checksum, algo, fetch, plat, TRUE)
             ELSE cached
        ELSE fetch_and_verify(file, checksum, algo, fetch, plat, FALSE)

NoDownload == [called |-> FALSE]

DownloadIdle ==
    /\ dest = NoFile
    /\ dlCall = NoDownload
    /\ unpacked = {}

DownloadInit ==
    /\ dest \in {NoFile, FileOf("good"), FileOf("bad"), ADirectory}
    /\ dlCall = NoDownload
    /\ unpacked = {}

\* one call of download() with any arguments, whatever the transfer does
DownloadCall ==
    /\ \E tofolder \in BOOLEAN, checksum \in Checksums, algo \in Algos,
          fetch \in FetchOutcomes :
        LET r == download(dest, tofolder, checksum, algo, fetch, platform)
        IN  /\ dest' = r.file
            /\ dlCall' = [called |-> TRUE, before |-> dest, tofolder |-> tofolder,
                          checksum |-> checksum, algo |-> algo, fetch |-> fetch,
                          ret |-> r.ret, err |-> r.err, fetched |-> r.fetched,
                          unlinked |-> r.unlinked]
    /\ UNCHANGED <<platform, shellVars, cfgVars, bld, bldLog, unpacked, builderVars>>

(***************************************************************************)
(* ShellCmd._safe_extract_tar: the checks before tar.extractall            *)
(***************************************************************************)

\* absolute paths are sequences of components below the root
DestDir == <<"tmp", "dest">>
WorkDir == <<"work">>

RECURSIVE normalized(_, _)
\* Path.resolve() where no component is a link: ".." drops the component
\* before it
normalized(rest, acc) ==
    IF rest = <<>> THEN acc
    ELSE IF Head(rest) = ".."
         THEN normalized(Tail(rest), IF acc = <<>> THEN acc ELSE SubSeq(acc, 1, Len(acc) - 1))
         ELSE normalized(Tail(rest), Append(acc, Head(rest)))

resolve(parts) == normalized(parts, <<>>)

\* a.startswith(b) over the component names of the model
name_startswith(a, b) == a = b \/ (a = "dest-evil" /\ b = "dest")

\* str(p).startswith(str(d)): the text of d is the beginning of the text of p
str_startswith(p, d) ==
    /\ Len(p) >= Len(d)
    /\ SubSeq(p, 1, Len(d) - 1) = SubSeq(d, 1, Len(d) - 1)
    /\ name_startswith(p[Len(d)], d[Len(d)])

\* the members an archive of the model may hold: regular files below the
\* destination, beside it and above it, and symlinks to a file of the
\* archive, to an absolute path inside and to paths outside
NoLink == [abs |-> FALSE, parts |-> <<>>]
TarMembers ==
    [name : {<<"x">>, <<"sub", "y">>, <<"..", "dest-evil", "x">>, <<"..", "..", "etc", "x">>},
     type : {"file"}, linkname : {NoLink}]
    \cup [name : {<<"link">>, <<"sub", "link">>}, type : {"sym"},
          linkname : {[abs |-> FALSE, parts |-> <<"x">>],
                      [abs |-> TRUE, parts |-> <<"tmp", "dest", "x">>],
                      [abs |-> TRUE, parts |-> <<"etc", "passwd">>]}]

\* bound on the number of members of an archive
MaxMembers == 2

\* Path(member.linkname).resolve(): a relative name is taken from the
\* working directory
link_target(linkname, cwd) ==
    resolve(IF linkname.abs THEN linkname.parts ELSE cwd \o linkname.parts)

\* tar.extractall(path) without a filter: every member is created where its
\* name leads
extractall(members, path) ==
    {[at |-> resolve(path \o members[i].name), type |-> members[i].type,
      linkname |-> members[i].linkname] : i \in 1..Len(members)}

\* the loop of checks: the first member whose path does not start with the
\* destination raises; a symlink whose target does not is logged and the loop
\* goes on to the next member
_safe_extract_tar(members, path, cwd) ==
    LET dest_path == resolve(path)
        traversal(i) == ~str_startswith(resolve(dest_path \o members[i].name), dest_path)
        suspicious(i) == /\ members[i].type = "sym"
                         /\ ~str_startswith(link_target(members[i].linkname, cwd), dest_path)
        bad == {i \in 1..Len(members) : traversal(i)}
        first == IF bad = {} THEN Len(members) + 1
                 ELSE CHOOSE i \in bad : \A j \in bad : i <= j
    IN  [err |-> IF bad = {} THEN "none" ELSE "ExtractionError",
         warned |-> {i \in 1..Len(members) : i < first /\ suspicious(i)},
         unpacked |-> IF bad = {} THEN extractall(members, path) ELSE {}]

\* one call of _safe_extract_tar on an archive, into an empty destination
SafeExtractCall ==
    /\ call.name = "none"
    /\ \E members \in SeqsUpTo(TarMembers, MaxMembers), cwd \in {WorkDir, DestDir} :
        LET r == _safe_extract_tar(members, DestDir, cwd)
        IN  /\ unpacked' = r.unpacked
            /\ call' = [name |-> "_safe_extract_tar", done |-> TRUE, members |-> members,
                        cwd |-> cwd, err |-> r.err, warned |-> r.warned]
    /\ log' = <<"_safe_extract_tar">>
    /\ UNCHANGED <<platform, shellVars, cfgVars, bld, bldLog, dest, dlCall,
                   builder, cls, fs, buildTmp, pkgTemp, deps, out, ar, pr>>

(***************************************************************************)
(* Config / PythonConfig: the four buckets and the extensions table        *)
(***************************************************************************)

BaseCore ==
    << "_abc", "_codecs", "_collections", "_functools", "_io", "_locale", "_operator",
       "_signal", "_sre", "_stat", "_symtable", "_thread", "_tracemalloc", "_weakref",
       "atexit", "errno", "faulthandler", "itertools", "posix", "pwd", "time" >>

BaseStatic ==
    << "_asyncio", "_bisect", "_blake2", "_bz2", "_contextvars", "_csv", "_datetime",
       "_decimal", "_elementtree", "_hashlib", "_heapq", "_json", "_lsprof", "_lzma",
       "_md5", "_multibytecodec", "_multiprocessing", "_opcode", "_pickle", "_posixshmem",
       "_posixsubprocess", "_queue", "_random", "_sha1", "_sha256", "_sha3", "_sha512",
       "_socket", "_sqlite3", "_ssl", "_statistics", "_struct", "_typing", "_uuid",
       "_zoneinfo", "array", "binascii", "cmath", "fcntl", "grp", "math", "mmap",
       "pyexpat", "readline", "select", "unicodedata", "zlib" >>

BaseDisabled ==
    << "_codecs_cn", "_codecs_hk", "_codecs_iso2022", "_codecs_jp", "_codecs_kr",
       "_codecs_tw", "_crypt", "_ctypes", "_curses", "_curses_panel", "_dbm", "_scproxy",
       "_tkinter", "_xxsubinterpreters", "audioop", "nis", "ossaudiodev", "resource",
       "spwd", "syslog", "termios", "xxlimited", "xxlimited_35" >>

BaseExtensions ==
    { "_abc", "_asyncio", "_bisect", "_blake2", "_bz2", "_codecs", "_codecs_cn",
       "_codecs_hk", "_codecs_iso2022", "_codecs_jp", "_codecs_kr", "_codecs_tw",
       "_collections", "_contextvars", "_crypt", "_csv", "_ctypes", "_curses",
       "_curses_panel", "_datetime", "_dbm", "_decimal", "_elementtree", "_functools",
       "_gdbm", "_hashlib", "_heapq", "_io", "_json", "_locale", "_lsprof", "_lzma",
       "_md5", "_multibytecodec", "_multiprocessing", "_opcode", "_operator", "_pickle",
       "_posixshmem", "_posixsubprocess", "_queue", "_random", "_scproxy", "_sha1",
       "_sha256", "_sha3", "_sha512", "_signal", "_socket", "_sqlite3", "_sre", "_ssl",
       "_stat", "_statistics", "_struct", "_symtable", "_thread", "_tracemalloc",
       "_typing", "_uuid", "_weakref", "_zoneinfo", "array", "atexit", "binascii", "cmath",
       "errno", "faulthandler", "fcntl", "grp", "itertools", "math", "mmap", "ossaudiodev",
       "posix", "pwd", "pyexpat", "readline", "resource", "select", "spwd", "syslog",
       "termios", "time", "unicodedata", "zlib" }

Buckets == {"core", "static", "shared", "disabled"}

\* BASE_CONFIG. A build rule of the extensions table is modelled by the name of
\* the revision that wrote it; err is the exception raised so far ("none": none).
BASE_CONFIG ==
    [core |-> BaseCore, static |-> BaseStatic, shared |-> <<>>,
     disabled |-> BaseDisabled,
     extensions |-> [k \in BaseExtensions |-> "base"],
     err |-> "none"]

\* list.remove(x): drops the first occurrence
RemoveFirst(s, x) ==
    LET i == CHOOSE k \in 1..Len(s) : s[k] = x /\ \A j \in 1..(k - 1) : s[j] # x
    IN  SubSeq(s, 1, i - 1) \o SubSeq(s, i + 1, Len(s))

\* self.cfg[bucket].remove(name): ValueError when name is not in the list.
\* Every statement is skipped once an exception is under way.
list_remove(c, bucket, name) ==
    IF c.err # "none" THEN c
    ELSE IF name \in Range(c[bucket])
         THEN [c EXCEPT ![bucket] = RemoveFirst(@, name)]
         ELSE [c EXCEPT !.err = "ValueError"]

\* self.cfg[bucket].append(name)
list_append(c, bucket, name) ==
    IF c.err # "none" THEN c ELSE [c EXCEPT ![bucket] = Append(@, name)]

\* if name in self.cfg[bucket]: self.cfg[bucket].remove(name)
list_discard(c, bucket, name) ==
    IF name \in Range(c[bucket]) THEN list_remove(c, bucket, name) ELSE c

RECURSIVE append_each(_, _, _)
append_each(c, bucket, names) ==
    IF names = <<>> \/ c.err # "none" THEN c
    ELSE append_each(list_append(c, bucket, Head(names)), bucket, Tail(names))

\* a loop over the names that takes none of them out
discard_each_none(c, bucket, names) == c

RECURSIVE discard_each(_, _, _)
discard_each(c, bucket, names) ==
    IF names = <<>> \/ c.err # "none" THEN c
    ELSE discard_each(list_discard(c, bucket, Head(names)), bucket, Tail(names))

\* a patch that adds no build rule
ext_update_none(c, keys, rev) == c

\* self.cfg["extensions"].update({k: rule ...}) and self.cfg["extensions"][k] = rule
ext_update(c, keys, rev) ==
    IF c.err # "none" THEN c
    ELSE [c EXCEPT !.extensions =
             [k \in (DOMAIN c.extensions) \cup keys |->
                 IF k \in keys THEN rev ELSE c.extensions[k]]]

\* del self.cfg["extensions"][key]: KeyError when the key is absent
ext_del(c, key) ==
    IF c.err # "none" THEN c
    ELSE IF key \in DOMAIN c.extensions
         THEN [c EXCEPT !.extensions =
                  [k \in (DOMAIN c.extensions) \ {key} |-> c.extensions[k]]]
         ELSE [c EXCEPT !.err = "KeyError"]

\* if key in self.cfg["extensions"]: del self.cfg["extensions"][key]
ext_discard(c, key) ==
    IF key \in DOMAIN c.extensions THEN ext_del(c, key) ELSE c

\* a mover that forgets the remove
move_entries_append_only(c, src, dst, names) == append_each(c, dst, names)

RECURSIVE move_entries(_, _, _, _)
\* Config.move_entries: for each name, remove from src then append to dst
move_entries(c, src, dst, names) ==
    IF names = <<>> \/ c.err # "none" THEN c
    ELSE move_entries(
             list_append(list_remove(c, src, Head(names)), dst, Head(names)),
             src, dst, Tail(names))

enable_static(c, names) == move_entries(c, "disabled", "static", names)
enable_shared(c, names) == move_entries(c, "disabled", "shared", names)
disable_static(c, names) == move_entries(c, "static", "disabled", names)
disable_shared(c, names) == move_entries(c, "shared", "disabled", names)
move_static_to_shared(c, names) == move_entries(c, "static", "shared", names)
move_shared_to_static(c, names) == move_entries(c, "shared", "static", names)

MoveOps ==
    {"enable_static", "enable_shared", "disable_static", "disable_shared",
     "move_static_to_shared", "move_shared_to_static"}

MoveSrc(op) ==
    CASE op \in {"enable_static", "enable_shared"} -> "disabled"
      [] op \in {"disable_static", "move_static_to_shared"} -> "static"
      [] op \in {"disable_shared", "move_shared_to_static"} -> "shared"

MoveDst(op) ==
    CASE op \in {"enable_static", "move_shared_to_static"} -> "static"
      [] op \in {"enable_shared", "move_static_to_shared"} -> "shared"
      [] op \in {"disable_static", "disable_shared"} -> "disabled"

apply_move(op, c, names) ==
    CASE op = "enable_static" -> enable_static(c, names)
      [] op = "enable_shared" -> enable_shared(c, names)
      [] op = "disable_static" -> disable_static(c, names)
      [] op = "disable_shared" -> disable_shared(c, names)
      [] op = "move_static_to_shared" -> move_static_to_shared(c, names)
      [] op = "move_shared_to_static" -> move_shared_to_static(c, names)

(* the build variants and the per-version patches, as the lists of statements
   their bodies run; run() below executes a list on a configuration *)

must_stay_static ==
    {"_functools", "_locale", "_signal", "_sre", "_thread", "posix", "time", "_typing"}

VanillaEnabled ==
    <<"_ctypes", "_curses", "_curses_panel", "_dbm", "_scproxy", "_tkinter",
      "resource", "syslog", "termios">>

\* a loop over the static modules that moves none of them
vanilla_moves_none(c, mods) == c

RECURSIVE vanilla_moves(_, _)
\* for mod in static_mods: if mod not in must_stay_static: move_static_to_shared(mod)
vanilla_moves(c, mods) ==
    IF mods = <<>> \/ c.err # "none" THEN c
    ELSE vanilla_moves(
             IF Head(mods) \notin must_stay_static
             THEN move_static_to_shared(c, <<Head(mods)>>)
             ELSE c,
             Tail(mods))

\* the statements of static_bootstrap on the cfg dict
bootstrap(c) ==
    IF c.err # "none" THEN c
    ELSE [c EXCEPT !.disabled = c.disabled \o c.static, !.static = c.core, !.core = <<>>]

\* one statement of a variant or patch body
step(c, ins) ==
    CASE ins[1] \in MoveOps -> apply_move(ins[1], c, ins[2])
      [] ins[1] = "remove" -> list_remove(c, ins[2], ins[3])
      [] ins[1] = "append" -> list_append(c, ins[2], ins[3])
      [] ins[1] = "discard" -> list_discard(c, ins[2], ins[3])
      [] ins[1] = "ext_update" -> ext_update(c, ins[2], ins[3])
      [] ins[1] = "ext_del" -> ext_del(c, ins[2])
      [] ins[1] = "ext_discard" -> ext_discard(c, ins[2])
      [] ins[1] = "bootstrap" -> bootstrap(c)
      [] ins[1] = "discard_each" -> discard_each(c, ins[2], ins[3])
      [] ins[1] = "vanilla_moves" -> vanilla_moves(c, c.static)

RECURSIVE run(_, _)
\* the statements in order; none runs once an exception is under way
run(c, body) ==
    IF body = <<>> \/ c.err # "none" THEN c
    ELSE run(step(c, Head(body)), Tail(body))

static_max(plat) == <<>>

static_mid(plat) ==
    <<<<"disable_static", <<"_decimal">>>>>>
    \o (IF plat = "Linux"
        THEN <<<<"ext_update", {"_ssl", "_hashlib"}, "static_mid_linux">>>>
        ELSE <<>>)

static_tiny(plat) ==
    <<<<"disable_static", <<"_bz2", "_decimal", "_csv", "_json", "_lzma", "_scproxy",
                            "_sqlite3", "_ssl", "pyexpat">>>>>>

static_bootstrap(plat) == <<<<"bootstrap">>>>

shared_max(plat) ==
    <<<<"remove", "disabled", "_ctypes">>,
      <<"move_static_to_shared", <<"_decimal", "_ssl", "_hashlib">>>>>>

shared_mid(plat) == <<<<"disable_static", <<"_decimal", "_ssl", "_hashlib">>>>>>

shared_vanilla(plat) ==
    <<<<"discard_each", "disabled", VanillaEnabled>>, <<"vanilla_moves">>>>

framework_max(plat) ==
    shared_max(plat)
    \o <<<<"move_static_to_shared",
           <<"_bz2", "_lzma", "_sqlite3", "_scproxy", "zlib", "binascii">>>>>>

framework_mid(plat) ==
    framework_max(plat) \o <<<<"disable_shared", <<"_decimal", "_ssl", "_hashlib">>>>>>

Variants ==
    {"static_max", "static_mid", "static_tiny", "static_bootstrap", "shared_max",
     "shared_mid", "shared_vanilla", "framework_max", "framework_mid"}

\* the body of the method a name selects
variant_body(m, plat) ==
    CASE m = "static_max" -> static_max(plat)
      [] m = "static_mid" -> static_mid(plat)
      [] m = "static_tiny" -> static_tiny(plat)
      [] m = "static_bootstrap" -> static_bootstrap(plat)
      [] m = "shared_max" -> shared_max(plat)
      [] m = "shared_mid" -> shared_mid(plat)
      [] m = "shared_vanilla" -> shared_vanilla(plat)
      [] m = "framework_max" -> framework_max(plat)
      [] m = "framework_mid" -> framework_mid(plat)

\* getattr(config, method)()
apply_variant(m, c, plat) ==
    IF m \in Variants THEN run(c, variant_body(m, plat))
    ELSE [c EXCEPT !.err = "AttributeError"]

(* the per-version patch chain: each patch() runs the one before it first *)

patch311(plat) ==
    IF plat = "Darwin" THEN <<<<"enable_static", <<"_scproxy">>>>>>
    ELSE IF plat = "Linux" THEN <<<<"enable_static", <<"ossaudiodev">>>>>>
    ELSE <<>>

patch312(plat) ==
    patch311(plat)
    \o <<<<"ext_update", {"_md5", "_sha1", "_sha2", "_sha3"}, "py312">>,
         <<"ext_del", "_sha256">>,
         <<"ext_del", "_sha512">>,
         <<"append", "static", "_sha2">>,
         <<"remove", "static", "_sha256">>,
         <<"remove", "static", "_sha512">>,
         <<"append", "disabled", "_xxinterpchannels">>>>

patch313(plat) ==
    patch312(plat)
    \o <<<<"ext_update", {"_interpchannels", "_interpqueues", "_interpreters",
                          "_sysconfig", "_testexternalinspection"}, "py313">>,
         <<"ext_del", "_crypt">>,
         <<"ext_del", "ossaudiodev">>,
         <<"ext_del", "spwd">>,
         <<"append", "static", "_interpchannels">>,
         <<"append", "static", "_interpqueues">>,
         <<"append", "static", "_interpreters">>,
         <<"append", "static", "_sysconfig">>,
         <<"remove", "disabled", "_crypt">>,
         <<"remove", "disabled", "_xxsubinterpreters">>,
         <<"remove", "disabled", "audioop">>,
         <<"remove", "disabled", "nis">>,
         <<"remove", "disabled", "ossaudiodev">>,
         <<"remove", "disabled", "spwd">>,
         <<"append", "disabled", "_testexternalinspection">>>>

patch314(plat) ==
    patch313(plat)
    \o <<<<"ext_update", {"_types", "_hmac", "_remote_debugging", "_zstd"}, "py314">>,
         <<"ext_update", {"_blake2", "_md5", "_sha1", "_sha2", "_sha3"}, "py314">>,
         <<"ext_discard", "_contextvars">>,
         <<"discard", "static", "_contextvars">>,
         <<"ext_discard", "_testexternalinspection">>,
         <<"discard", "disabled", "_testexternalinspection">>,
         <<"append", "static", "_types">>,
         <<"append", "static", "_hmac">>,
         <<"append", "disabled", "_remote_debugging">>,
         <<"append", "disabled", "_zstd">>,
         <<"remove", "static", "_sha1">>,
         <<"remove", "static", "_sha2">>,
         <<"remove", "static", "_sha3">>,
         <<"remove", "static", "_hmac">>>>

SupportedVersions == {"3.11", "3.12", "3.13", "3.14"}
\* the versions a builder is given in the model: the supported ones and one
\* that get_config has no class for
Versions == SupportedVersions \cup {"3.10"}
Platforms == {"Darwin", "Linux", "Windows"}

\* the patch() of the class get_config selects for a version
patch_body(ver, plat) ==
    CASE ver = "3.11" -> patch311(plat)
      [] ver = "3.12" -> patch312(plat)
      [] ver = "3.13" -> patch313(plat)
      [] ver = "3.14" -> patch314(plat)

\* Config.__init__ that keeps the dict it is given instead of a copy: what is
\* done to the object's cfg is done to the table
table_aliased(table, c) == c

\* self.cfg = copy.deepcopy(cfg): the table a Config was constructed from, after
\* the object c has been patched and changed
table_after(table, c) == table

\* the config class of a version called on a table: Config.__init__ runs
\* patch() on its copy; KeyError when there is no class for the version
new_config(table, ver, plat) ==
    IF ver \in SupportedVersions THEN run(table, patch_body(ver, plat))
    ELSE [table EXCEPT !.err = "KeyError"]

\* PythonBuilder.get_config on the table as the module defines it
get_config(ver, plat) == new_config(BASE_CONFIG, ver, plat)

(* the life of one Config object *)

\* bounds of the bucket-move calls made on a config
MaxNames == 2
MoveNames == {"_decimal", "_ctypes", "_hashlib", "_abc"}
NameLists == SeqsUpTo(MoveNames, MaxNames) \ {<<>>}

NoCfg == [phase |-> "none"]

CfgInit ==
    /\ platform \in Platforms
    /\ cfg = BASE_CONFIG
    /\ cfgLog = NoCfg
    /\ base = BASE_CONFIG

\* builder.get_config() for some version
Construct ==
    /\ cfgLog.phase = "none"
    /\ \E ver \in Versions :
        /\ cfg' = new_config(base, ver, platform)
        /\ cfgLog' = [phase |-> "constructed", ver |-> ver]
    /\ base' = table_after(base, cfg')
    /\ UNCHANGED <<platform, shellVars, setupVars, builderVars>>

\* getattr(config, method)() on the new config, as Config.write and the
\* dependency analysis do
ApplyVariant ==
    /\ cfgLog.phase = "constructed"
    /\ cfg.err = "none"
    /\ \E m \in Variants :
        /\ cfg' = apply_variant(m, cfg, platform)
        /\ cfgLog' = [phase |-> "variant", ver |-> cfgLog.ver, method |-> m,
                      before |-> cfg]
    /\ base' = table_after(base, cfg')
    /\ UNCHANGED <<platform, shellVars, setupVars, builderVars>>

\* one of the six bucket-move methods called with a list of names
MoveOp ==
    /\ cfgLog.phase \in {"constructed", "variant"}
    /\ cfg.err = "none"
    /\ \E op \in MoveOps, names \in NameLists :
        /\ cfg' = apply_move(op, cfg, names)
        /\ cfgLog' = [phase |-> "moved", ver |-> cfgLog.ver, op |-> op,
                      names |-> names, before |-> cfg]
    /\ base' = table_after(base, cfg')
    /\ UNCHANGED <<platform, shellVars, setupVars, builderVars>>

BucketUnion(c) ==
    Range(c.core) \cup Range(c.static) \cup Range(c.shared) \cup Range(c.disabled)

CfgIdle == cfg = BASE_CONFIG /\ cfgLog = NoCfg /\ base = BASE_CONFIG

(***************************************************************************)
(* PythonBuilder: fields, paths and the dependency analysis                *)
(***************************************************************************)

STDLIB_MODULES ==
    { "_abc", "_asyncio", "_bisect", "_blake2", "_bz2", "_codecs", "_collections",
       "_contextvars", "_csv", "_ctypes", "_datetime", "_decimal", "_elementtree",
       "_functools", "_hashlib", "_heapq", "_io", "_json", "_locale", "_lsprof", "_lzma",
       "_md5", "_multibytecodec", "_multiprocessing", "_opcode", "_operator", "_pickle",
       "_posixshmem", "_posixsubprocess", "_queue", "_random", "_sha1", "_sha256", "_sha3",
       "_sha512", "_signal", "_socket", "_sqlite3", "_sre", "_ssl", "_stat", "_statistics",
       "_struct", "_symtable", "_thread", "_tracemalloc", "_typing", "_uuid", "_weakref",
       "_zoneinfo", "abc", "aifc", "argparse", "array", "ast", "asyncio", "atexit",
       "base64", "bdb", "binascii", "bisect", "builtins", "bz2", "cProfile", "calendar",
       "cgi", "cgitb", "chunk", "cmath", "cmd", "code", "codecs", "codeop", "collections",
       "colorsys", "compileall", "concurrent", "configparser", "contextlib", "contextvars",
       "copy", "copyreg", "crypt", "csv", "ctypes", "curses", "dataclasses", "datetime",
       "dbm", "decimal", "difflib", "dis", "doctest", "email", "encodings", "enum",
       "errno", "faulthandler", "fcntl", "filecmp", "fileinput", "fnmatch", "fractions",
       "ftplib", "functools", "gc", "getopt", "getpass", "gettext", "glob", "graphlib",
       "grp", "gzip", "hashlib", "heapq", "hmac", "html", "http", "idlelib", "imaplib",
       "imghdr", "importlib", "inspect", "io", "ipaddress", "itertools", "json", "keyword",
       "lib2to3", "linecache", "locale", "logging", "lzma", "mailbox", "mailcap",
       "marshal", "math", "mimetypes", "mmap", "modulefinder", "multiprocessing", "netrc",
       "nis", "nntplib", "numbers", "operator", "optparse", "os", "ossaudiodev", "pathlib",
       "pdb", "pickle", "pickletools", "pipes", "pkgutil", "platform", "plistlib",
       "poplib", "posix", "posixpath", "pprint", "profile", "pstats", "pty", "pwd",
       "py_compile", "pyclbr", "pydoc", "queue", "quopri", "random", "re", "readline",
       "reprlib", "resource", "rlcompleter", "runpy", "sched", "secrets", "select",
       "selectors", "shelve", "shlex", "shutil", "signal", "site", "smtpd", "smtplib",
       "sndhdr", "socket", "socketserver", "spwd", "sqlite3", "ssl", "stat", "statistics",
       "string", "stringprep", "struct", "subprocess", "sunau", "symtable", "sys",
       "sysconfig", "syslog", "tabnanny", "tarfile", "telnetlib", "tempfile", "termios",
       "test", "textwrap", "threading", "time", "timeit", "tkinter", "token", "tokenize",
       "tomllib", "trace", "traceback", "tracemalloc", "tty", "turtle", "turtledemo",
       "types", "typing", "unicodedata", "unittest", "urllib", "uu", "uuid", "venv",
       "warnings", "wave", "weakref", "webbrowser", "winreg", "winsound", "wsgiref",
       "xdrlib", "xml", "xmlrpc", "zipapp", "zipfile", "zipimport", "zlib", "zoneinfo" }

CORE_MODULES ==
    { "_abc", "_codecs", "_collections", "_functools", "_io", "_locale", "_operator",
       "_signal", "_sre", "_stat", "_symtable", "_thread", "_tracemalloc", "_weakref",
       "atexit", "errno", "faulthandler", "itertools", "posix", "pwd", "time", "zlib" }

STDLIB_TO_EXTENSION ==
       "hashlib" :> {"_hashlib", "_md5", "_sha1", "_sha256", "_sha512", "_sha3", "_blake2"}
    @@ "ssl" :> {"_ssl"}
    @@ "sqlite3" :> {"_sqlite3"}
    @@ "json" :> {"_json"}
    @@ "pickle" :> {"_pickle"}
    @@ "datetime" :> {"_datetime"}
    @@ "decimal" :> {"_decimal"}
    @@ "ctypes" :> {"_ctypes"}
    @@ "lzma" :> {"_lzma"}
    @@ "bz2" :> {"_bz2"}
    @@ "zlib" :> {"zlib"}
    @@ "xml" :> {"_elementtree", "pyexpat"}
    @@ "csv" :> {"_csv"}
    @@ "asyncio" :> {"_asyncio"}
    @@ "multiprocessing" :> {"_multiprocessing", "_posixshmem"}
    @@ "collections" :> {"_collections"}
    @@ "functools" :> {"_functools"}
    @@ "itertools" :> {"itertools"}
    @@ "math" :> {"math", "cmath"}
    @@ "struct" :> {"_struct"}
    @@ "array" :> {"array"}
    @@ "select" :> {"select"}
    @@ "socket" :> {"_socket"}
    @@ "unicodedata" :> {"unicodedata"}
    @@ "binascii" :> {"binascii"}
    @@ "mmap" :> {"mmap"}
    @@ "fcntl" :> {"fcntl"}
    @@ "grp" :> {"grp"}
    @@ "pwd" :> {"pwd"}
    @@ "readline" :> {"readline"}
    @@ "uuid" :> {"_uuid"}
    @@ "statistics" :> {"_statistics"}
    @@ "typing" :> {"_typing"}
    @@ "inspect" :> {"_opcode"}
    @@ "dis" :> {"_opcode"}
    @@ "subprocess" :> {"_posixsubprocess", "select", "fcntl"}
    @@ "random" :> {"_random"}
    @@ "heapq" :> {"_heapq"}
    @@ "bisect" :> {"_bisect"}
    @@ "contextvars" :> {"_contextvars"}
    @@ "zoneinfo" :> {"_zoneinfo"}

\* str.startswith("_") over the names of STDLIB_MODULES
starts_with_underscore(m) ==
    m \in {"_abc", "_asyncio", "_bisect", "_blake2", "_bz2", "_codecs", "_collections",
           "_contextvars", "_csv", "_ctypes", "_datetime", "_decimal", "_elementtree",
           "_functools", "_hashlib", "_heapq", "_io", "_json", "_locale", "_lsprof",
           "_lzma", "_md5", "_multibytecodec", "_multiprocessing", "_opcode",
           "_operator", "_pickle", "_posixshmem", "_posixsubprocess", "_queue",
           "_random", "_sha1", "_sha256", "_sha3", "_sha512", "_signal", "_socket",
           "_sqlite3", "_sre", "_ssl", "_stat", "_statistics", "_struct", "_symtable",
           "_thread", "_tracemalloc", "_typing", "_uuid", "_weakref", "_zoneinfo"}

\* Project paths, as sequences of components below the project root
ProjectBuild == <<"build">>
ProjectInstall == <<"build", "install">>
VanillaCache == ProjectInstall \o <<"python-shared-vanilla">>
reduced_in_place == VanillaCache
ReducedPrefix == ProjectInstall \o <<"python-shared-reduced">>
PkgTempDir == ProjectBuild \o <<"pkg_temp">>

\* PythonBuilder.build_type: self.config.split("_")[0]
build_type(config) ==
    CASE config \in {"static_max", "static_mid", "static_tiny", "static_bootstrap"}
             -> "static"
      [] config \in {"shared_max", "shared_mid", "shared_vanilla"} -> "shared"
      [] config \in {"framework_max", "framework_mid"} -> "framework"

\* self.name.lower() + "-" + self.build_type
prefix_name(bt) ==
    CASE bt = "static" -> "python-static"
      [] bt = "shared" -> "python-shared"
      [] bt = "framework" -> "python-framework"

\* a prefix that ignores an explicitly set install directory
prefix_ignoring_install_dir(b, plat) ==
    ProjectInstall \o <<prefix_name(build_type(b.config))>>

\* PythonBuilder.prefix
prefix(b, plat) ==
    IF plat = "Darwin" /\ build_type(b.config) = "framework"
    THEN b.install_dir \o <<"Python.framework", "Versions", b.ver>>
    ELSE IF b.install_dir # ProjectInstall
         THEN b.install_dir
         ELSE ProjectInstall \o <<prefix_name(build_type(b.config))>>

\* the pip commands of the package download, in the order they are tried
pip_commands == <<"pip3", "pip", "python -m pip">>
\* how one attempt ends: exit status zero, nonzero, or the command not found
PipOutcomes == {"ok", "failed", "missing"}

RECURSIVE pip_attempts(_, _)
\* the loop over pip_commands: stop at the first returncode 0
pip_attempts(outcomes, i) ==
    IF i > Len(pip_commands)
    THEN [tried |-> pip_commands, success |-> FALSE]
    ELSE IF outcomes[i] = "ok"
         THEN [tried |-> SubSeq(pip_commands, 1, i), success |-> TRUE]
         ELSE pip_attempts(outcomes, i + 1)

pip_download(outcomes) == pip_attempts(outcomes, 1)

\* required_extensions from the mapping table alone
required_extensions_mapped_only(stdlib_imports) ==
    UNION {STDLIB_TO_EXTENSION[m] : m \in stdlib_imports \cap DOMAIN STDLIB_TO_EXTENSION}

\* required_extensions of a set of stdlib imports
required_extensions_of(stdlib_imports) ==
    UNION {STDLIB_TO_EXTENSION[m] : m \in stdlib_imports \cap DOMAIN STDLIB_TO_EXTENSION}
    \cup {m \in stdlib_imports : starts_with_underscore(m)}

NoResult == [kind |-> "none"]

\* the no-packages guard left out
analyze_guard_missing(pkgs) == FALSE

\* if not self.pkgs: return None
analyze_guard(pkgs) == pkgs = <<>>

\* config = self.get_config(); getattr(config, self.config)(), with the
\* module-level table as it is
configured_from(table, b, plat) ==
    LET config == new_config(table, b.ver, plat)
    IN  IF config.err # "none" THEN config ELSE apply_variant(b.config, config, plat)

\* config = self.get_config(); getattr(config, self.config)()
configured(b, plat) == configured_from(BASE_CONFIG, b, plat)

\* every enabled module taken as unused
potentially_unused_enabled(enabled, required) == enabled

\* potentially_unused = current_enabled - required_extensions - self.CORE_MODULES
potentially_unused_of(enabled, required) == (enabled \ required) \ CORE_MODULES

\* PythonBuilder._analyze_package_deps, given the configuration it compares
\* with (see configured) and what the environment did: how the
\* pip attempts ended, how many files the downloads held and what they import.
\* The result is None, an exception, or an AnalysisResult.
_analyze_package_deps(b, config, outcomes, files, imports) ==
    IF analyze_guard(b.pkgs) THEN [kind |-> "none", tried |-> <<>>]
    ELSE
    LET dl == pip_download(outcomes)
        files_analyzed == IF dl.success THEN files ELSE 0
        all_imports == IF files_analyzed > 0 THEN imports ELSE {}
        stdlib_imports == all_imports \cap STDLIB_MODULES
        third_party == all_imports \ STDLIB_MODULES
        required == required_extensions_of(stdlib_imports)
        enabled == Range(config.static) \cup Range(config.shared) \cup Range(config.core)
    IN  IF config.err # "none"
        THEN [kind |-> "raise", err |-> config.err, tried |-> dl.tried]
        ELSE [kind |-> "result", tried |-> dl.tried,
              stdlib_imports |-> stdlib_imports,
              third_party |-> third_party,
              required_extensions |-> required,
              needed_but_disabled |-> required \cap Range(config.disabled),
              potentially_unused |-> potentially_unused_of(enabled, required),
              files_analyzed |-> files_analyzed]

\* the stdlib paths a reduction may remove, by the import that keeps them
\* (auto_configure also lists ensurepip, with no path)
stdlib_module_paths ==
       "tkinter" :> {"tkinter/", "turtle.py", "turtledemo/"}
    @@ "idlelib" :> {"idlelib/"}
    @@ "test" :> {"test/"}
    @@ "lib2to3" :> {"lib2to3/"}
    @@ "distutils" :> {"distutils/"}
    @@ "curses" :> {"curses/"}
    @@ "dbm" :> {"dbm/"}
    @@ "multiprocessing" :> {"multiprocessing/"}
    @@ "concurrent" :> {"concurrent/"}
    @@ "asyncio" :> {"asyncio/"}
    @@ "email" :> {"email/"}
    @@ "html" :> {"html/"}
    @@ "http" :> {"http/"}
    @@ "json" :> {"json/"}
    @@ "logging" :> {"logging/"}
    @@ "unittest" :> {"unittest/"}
    @@ "urllib" :> {"urllib/"}
    @@ "xml" :> {"xml/"}
    @@ "xmlrpc" :> {"xmlrpc/"}
    @@ "ctypes" :> {"ctypes/"}
    @@ "sqlite3" :> {"sqlite3/"}
    @@ "pydoc_data" :> {"pydoc_data/"}

\* an extension pattern f"{mod}.cpython-*.so" (kind "cpython") or f"{mod}.*.so"
\* (kind "any")
patterns_of(mods) == [stem : mods, kind : {"cpython", "any"}]

\* the "reductions" part of the manifest built from an analysis result
reductions_of(result) ==
    LET extensions_to_remove == {m \in result.potentially_unused : m \notin CORE_MODULES}
        required_stdlib == result.stdlib_imports \cup {"ensurepip", "pip", "setuptools"}
    IN  [extensions_to_remove |-> extensions_to_remove,
         extension_patterns |-> patterns_of(extensions_to_remove),
         stdlib_to_remove |->
             UNION {stdlib_module_paths[m] :
                        m \in {k \in DOMAIN stdlib_module_paths : k \notin required_stdlib}}]

(***************************************************************************)
(* The file system: python build trees and the temporary locations         *)
(***************************************************************************)

\* A directory of named entries, or nothing at that path
NoDir == [exists |-> FALSE, items |-> {}]
EmptyDir == [exists |-> TRUE, items |-> {}]
DirOf(items) == [exists |-> TRUE, items |-> items]

\* A python build tree at some prefix:
\*   bin      bin/python3 exists
\*   lib      lib/pythonX.Y exists
\*   dynload  lib/pythonX.Y/lib-dynload: entries [name, isFile], a name being the
\*            sequence of its dot-separated components
\*   stdlib   the other entries of lib/pythonX.Y (a directory ends in "/")
\*   site     lib/pythonX.Y/site-packages: the packages installed
\*   zip      lib/pythonXY.zip exists
\*   zipped   what the zip holds: stdlib entries, and packages of site-packages
NothingZipped == [stdlib |-> {}, site |-> {}]
Absent ==
    [exists |-> FALSE, bin |-> FALSE, lib |-> FALSE, dynload |-> NoDir,
     stdlib |-> {}, site |-> NoDir, zip |-> FALSE, zipped |-> NothingZipped]

\* the tag component of an extension file built for this interpreter
SoTag == "cpython-313-darwin"

\* str.startswith("cpython-") over the name components of the model
starts_with_cpython(comp) == comp \in {"cpython-313-darwin", "cpython-"}

\* Path.glob of an extension pattern against one lib-dynload entry name:
\* "{stem}.*.so" needs the stem, a dot, anything, and a final ".so";
\* "{stem}.cpython-*.so" also needs "cpython-" right after the first dot
glob_match(pat, name) ==
    /\ Len(name) >= 3
    /\ name[1] = pat.stem
    /\ name[Len(name)] = "so"
    /\ pat.kind = "cpython" => starts_with_cpython(name[2])

\* a removal loop that unlinks only what the "cpython" patterns match
remove_extensions_cpython_only(tree, patterns) ==
    IF ~tree.dynload.exists THEN tree
    ELSE [tree EXCEPT !.dynload.items =
             {e \in @ : ~(e.isFile /\ \E p \in patterns :
                                         p.kind = "cpython" /\ glob_match(p, e.name))}]

\* for pattern in extension_patterns: for ext_file in dynload_dir.glob(pattern):
\*     if ext_file.is_file(): ext_file.unlink()
remove_extensions(tree, patterns) ==
    IF ~tree.dynload.exists THEN tree
    ELSE [tree EXCEPT !.dynload.items =
             {e \in @ : ~(e.isFile /\ \E p \in patterns : glob_match(p, e.name))}]

\* for rel_path in stdlib_to_remove: remove lib_dir / rel_path if it exists
\* (the whole directory, or the file)
remove_stdlib(tree, paths) == [tree EXCEPT !.stdlib = @ \ paths]

\* the stdlib entries `make install` puts under lib/pythonX.Y in the model
InstalledStdlib ==
    UNION {stdlib_module_paths[m] : m \in DOMAIN stdlib_module_paths}
    \cup {"os.py", "ensurepip/", "encodings/"}

\* fnmatch of PythonBuilder.remove_patterns over the entry names of the model:
\* "*tk*" takes tkinter/, "turtle*" turtle.py and turtledemo/, and distutils,
\* idlelib, lib2to3, pydoc_data and test are listed by name
matches_remove_patterns(entry) ==
    entry \in {"tkinter/", "turtle.py", "turtledemo/", "distutils/", "idlelib/",
               "lib2to3/", "pydoc_data/", "test/"}

\* the tree `make install` leaves at the prefix for a configuration: one
\* extension file per shared module, the stdlib and an empty site-packages
installed_tree(config) ==
    [exists |-> TRUE, bin |-> TRUE, lib |-> TRUE,
     dynload |-> DirOf({[name |-> <<m, SoTag, "so">>, isFile |-> TRUE] :
                            m \in Range(config.shared)}),
     stdlib |-> InstalledStdlib,
     site |-> EmptyDir,
     zip |-> FALSE, zipped |-> NothingZipped]

\* the extension modules whose file name one of the remove_patterns matches
\* ("_codecs_*.so", "*tk*", "_tk*", "_xx*.so", "xx*.so")
CleanedExtensions ==
    {"_codecs_cn", "_codecs_hk", "_codecs_iso2022", "_codecs_jp", "_codecs_kr",
     "_codecs_tw", "_tkinter", "_xxsubinterpreters", "xxlimited", "xxlimited_35"}

\* PythonBuilder.clean: glob_remove of remove_patterns under lib/pythonX.Y
\* (site-packages is one of the patterns; "ensurepip" is one once configure()
\* added it)
clean_tree(tree, remove_patterns) ==
    IF ~tree.lib THEN tree
    ELSE [tree EXCEPT
             !.dynload.items = {e \in @ : e.name[1] \notin CleanedExtensions},
             !.stdlib = {e \in @ : ~matches_remove_patterns(e)
                                   /\ ~(e = "ensurepip/" /\ "ensurepip" \in Range(remove_patterns))},
             !.site = NoDir]

\* compileall -b followed by the removal of every .py file
compiled_name(entry) ==
    CASE entry = "os.py" -> "os.pyc"
      [] entry = "turtle.py" -> "turtle.pyc"
      [] OTHER -> entry

\* the temporary places of ziplib under the project's build directory:
\* build/lib-dynload and build/os.py or build/os.pyc
NoTemp == [dynload |-> NoDir, os |-> "none"]

\* a lib-dynload directory moved into an existing build/lib-dynload
NestedDynload == [name |-> <<"lib-dynload">>, isFile |-> FALSE]

\* PythonBuilder.ziplib on the tree at the prefix. fails: the compileall command
\* exits nonzero. Result: the tree, the temporary places, and the exception.
\* shutil.move into an existing build/lib-dynload puts the directory inside it,
\* and it is that directory which is moved back (the entries of the nested one
\* are not tracked).
ziplib(tree, tmp, should_compile, fails) ==
    IF ~tree.dynload.exists
    THEN [tree |-> tree, tmp |-> tmp, err |-> "FileNotFoundError"]
    ELSE IF tmp.dynload.exists /\ NestedDynload \in tmp.dynload.items
    THEN [tree |-> tree, tmp |-> tmp, err |-> "shutil.Error"]
    ELSE
    LET held == IF tmp.dynload.exists
                THEN DirOf(tmp.dynload.items \cup {NestedDynload})
                ELSE tree.dynload
        t1 == [tree EXCEPT !.dynload = NoDir]
        tmp1 == [tmp EXCEPT !.dynload = held]
    IN  IF should_compile /\ (fails \/ ~tree.bin)
        THEN [tree |-> t1, tmp |-> tmp1,
              err |-> IF tree.bin THEN "CommandError" ELSE "FileNotFoundError"]
        ELSE
        LET lib1 == IF should_compile THEN {compiled_name(e) : e \in t1.stdlib}
                    ELSE t1.stdlib
            osname == IF should_compile THEN "os.pyc" ELSE "os.py"
        IN  IF osname \notin lib1
            THEN [tree |-> [t1 EXCEPT !.stdlib = lib1], tmp |-> tmp1,
                  err |-> "FileNotFoundError"]
            ELSE \* make_archive, remove(src), _cleanup_after_zip, then both restores
                 [tree |-> [t1 EXCEPT !.zip = TRUE, !.stdlib = {osname},
                                      !.zipped = [stdlib |-> lib1 \ {osname},
                                                  site |-> t1.site.items],
                                      !.site = EmptyDir, !.dynload = held],
                  tmp |-> NoTemp,
                  err |-> "none"]

\* what ensurepip puts into site-packages
EnsurepipInstalls == {"pip", "pip-25.dist-info"}

\* the names the globs "pip", "pip-*", "setuptools", "setuptools-*" and
\* "_distutils_hack" match, over the names of the model
is_cruft(name) ==
    name \in {"pip", "pip-25.dist-info", "setuptools", "setuptools-80.dist-info",
              "_distutils_hack"}

\* what "pip install" of one package puts into site-packages
installed_names(pkg) ==
    IF pkg = "setuptools" THEN {"setuptools", "setuptools-80.dist-info", "_distutils_hack"}
    ELSE {pkg}

\* PythonBuilder.install_pkgs on the tree at the prefix: "python3 -m ensurepip"
\* then "pip3 install pkgs". The interpreter missing is a FileNotFoundError
\* out of cmd(); fails: one of the two commands exits nonzero.
install_pkgs(tree, pkgs, fails) ==
    IF ~tree.bin THEN [tree |-> tree, err |-> "FileNotFoundError"]
    ELSE IF fails THEN [tree |-> tree, err |-> "CommandError"]
    ELSE [tree |-> [tree EXCEPT !.site =
                       DirOf(@.items \cup EnsurepipInstalls
                             \cup UNION {installed_names(p) : p \in Range(pkgs)})],
          err |-> "none"]

\* is path p equal to, or an ancestor of, path q
IsPrefix(p, q) == Len(p) <= Len(q) /\ SubSeq(q, 1, Len(p)) = p

NoPath == <<>>
CustomDir == <<"custom">>
CopyDir == <<"build", "reduced">>

\* the places where the model keeps a python build tree
Roots ==
    {ProjectInstall, VanillaCache, ReducedPrefix, CustomDir, CopyDir}
    \cup {ProjectInstall \o <<prefix_name(bt)>> : bt \in {"static", "shared", "framework"}}
    \cup {d \o <<"Python.framework", "Versions", v>> :
              d \in {ProjectInstall, CustomDir}, v \in {"3.12", "3.13"}}

EmptyFs == [r \in Roots |-> Absent]

TreeAt(f, p) == IF p \in DOMAIN f THEN f[p] ELSE Absent

\* Path.exists(): a tree is there, or one is somewhere below
exists_at(f, p) == \E r \in DOMAIN f : f[r].exists /\ IsPrefix(p, r)

\* shutil.rmtree(p)
rmtree(f, p) == [r \in DOMAIN f |-> IF IsPrefix(p, r) THEN Absent ELSE f[r]]

put_tree(f, p, tree) == [r \in DOMAIN f |-> IF r = p THEN tree ELSE f[r]]

\* a manifest file: whether it exists, and its "reductions"
NoManifest == [exists |-> FALSE, extension_patterns |-> {}, stdlib_to_remove |-> {}]

\* applying the reductions in place, whatever copy_to says
apply_target_in_place(b, plat, copy_to) == prefix(b, plat)

\* target_prefix: the copy when copy_to is given, else the build itself
apply_target(b, plat, copy_to) == IF copy_to # NoPath THEN copy_to ELSE prefix(b, plat)

\* PythonBuilder.apply_reductions. Result: the file system, the value returned
\* (a path, or NoPath for None) and the exception raised.
apply_reductions(b, plat, f, manifest, copy_to) ==
    IF ~manifest.exists THEN [fs |-> f, ret |-> NoPath, err |-> "none"]
    ELSE
    LET target == apply_target(b, plat, copy_to)
        f1 == IF copy_to # NoPath /\ exists_at(f, target) THEN rmtree(f, target) ELSE f
        canCopy == TreeAt(f1, prefix(b, plat)).exists
        f2 == IF copy_to # NoPath /\ canCopy
              THEN put_tree(f1, copy_to, TreeAt(f1, prefix(b, plat)))
              ELSE f1
    IN  IF copy_to # NoPath /\ ~canCopy
        THEN \* shutil.copytree of a source that is not there
             [fs |-> f1, ret |-> NoPath, err |-> "FileNotFoundError"]
        ELSE IF ~TreeAt(f2, target).lib
        THEN [fs |-> f2, ret |-> NoPath, err |-> "none"]
        ELSE LET t == TreeAt(f2, target)
                 reduced == remove_stdlib(remove_extensions(t, manifest.extension_patterns),
                                          manifest.stdlib_to_remove)
             IN  [fs |-> put_tree(f2, target, reduced), ret |-> target, err |-> "none"]

(***************************************************************************)
(* Builder: the dependency builders' setup() and build()                   *)
(***************************************************************************)

\* lib_products of the builders: Builder itself has none, OpensslBuilder two
LibProductNames == {"libssl.a", "libcrypto.a"}

\* all(...) turned into any(...)
lib_products_exist_any(s) == \E lib \in s.lib_products : lib \in s.present

\* AbstractBuilder.lib_products_exist
lib_products_exist(s) == \A lib \in s.lib_products : lib \in s.present

DownloadOutcomes == {"ok", "fail"}
\* extract() creates the source directory, returns without creating it, or raises
ExtractOutcomes == {"ok", "empty", "fail"}

\* Builder.setup on the builder state s, with what the environment does to
\* the download and the extraction. Result: the state, whether download() and
\* extract() were called, and the exception raised.
Builder_setup(s, dl, ex) ==
    LET s1 == [s EXCEPT !.projectDirs = TRUE]
        downloads == ~s.archive
    IN  IF downloads /\ dl = "fail"
        THEN [state |-> s1, downloaded |-> TRUE, extracted |-> FALSE,
              err |-> "DownloadError"]
        ELSE
        LET s2 == [s1 EXCEPT !.archive = TRUE]
        IN  IF lib_products_exist(s2)
            THEN [state |-> s2, downloaded |-> downloads, extracted |-> FALSE,
                  err |-> "none"]
            ELSE [state |-> [s2 EXCEPT !.src = IF ex = "ok" THEN "extracted" ELSE "absent"],
                  downloaded |-> downloads, extracted |-> TRUE,
                  err |-> IF ex = "ok" THEN "none" ELSE "ExtractionError"]

\* OpensslBuilder.build and its siblings: configure and make only when a lib
\* product is missing; fails: a command exits nonzero
Builder_build(s, fails) ==
    IF lib_products_exist(s) THEN [state |-> s, ran |-> FALSE, err |-> "none"]
    ELSE IF s.src = "absent" THEN [state |-> s, ran |-> TRUE, err |-> "FileNotFoundError"]
    ELSE IF fails THEN [state |-> s, ran |-> TRUE, err |-> "CommandError"]
    ELSE [state |-> [s EXCEPT !.present = @ \cup s.lib_products], ran |-> TRUE,
          err |-> "none"]

\* AbstractBuilder.process of a dependency: setup() then build(); the other
\* steps are the empty methods of AbstractBuilder
Builder_process(s, dl, ex, fails) ==
    LET r == Builder_setup(s, dl, ex)
    IN  IF r.err # "none" THEN [state |-> r.state, err |-> r.err]
        ELSE LET q == Builder_build(r.state, fails)
             IN  [state |-> q.state, err |-> q.err]

BuilderStates ==
    [lib_products : SUBSET LibProductNames, present : SUBSET LibProductNames,
     archive : BOOLEAN, src : {"absent", "old"}, projectDirs : BOOLEAN]

NoBldLog == [called |-> "none"]

SetupInit ==
    /\ bld \in BuilderStates
    /\ bldLog = NoBldLog
    /\ DownloadIdle

BldIdle ==
    /\ bld = [lib_products |-> {}, present |-> {}, archive |-> FALSE, src |-> "absent",
              projectDirs |-> FALSE]
    /\ bldLog = NoBldLog

SetupIdle == BldIdle /\ DownloadIdle

\* one call of Builder.setup()
Setup ==
    /\ \E dl \in DownloadOutcomes, ex \in ExtractOutcomes :
        LET r == Builder_setup(bld, dl, ex)
        IN  /\ bld' = r.state
            /\ bldLog' = [called |-> "setup", before |-> bld,
                          downloaded |-> r.downloaded, extracted |-> r.extracted,
                          err |-> r.err]
    /\ UNCHANGED <<platform, shellVars, cfgVars, downloadVars, builderVars>>

\* one call of build() after a setup() that returned
Build ==
    /\ bldLog.called = "setup" /\ bldLog.err = "none"
    /\ \E fails \in BOOLEAN :
        LET r == Builder_build(bld, fails)
        IN  /\ bld' = r.state
            /\ bldLog' = [called |-> "build", before |-> bld, ran |-> r.ran,
                          err |-> r.err]
    /\ UNCHANGED <<platform, shellVars, cfgVars, downloadVars, builderVars>>

(***************************************************************************)
(* PythonBuilder: the instance, its class-level lists, and the calls       *)
(***************************************************************************)

\* PythonBuilder.config_options and PythonBuilder.remove_patterns as the class
\* body leaves them
ConfigOptions == <<"--disable-test-modules">>
RemovePatterns ==
    <<"*.exe", "*config-3*", "*tcl*", "*tdbc*", "*tk*", "__phello__", "__pycache__",
      "_codecs_*.so", "_test*", "_tk*", "_xx*.so", "distutils", "idlelib", "lib2to3",
      "libpython*", "LICENSE.txt", "pkgconfig", "pydoc_data", "site-packages", "test",
      "Tk*", "turtle*", "venv", "xx*.so">>

ClassInit == [config_options |-> ConfigOptions, remove_patterns |-> RemovePatterns]

\* PythonBuilder.__init__ with its defaults, for a version and a configuration
NewBuilder(ver, config, pkgs) ==
    [ver |-> ver, config |-> config, pkgs |-> pkgs, install_dir |-> ProjectInstall,
     skip_ziplib |-> FALSE, skip_pkg_install |-> FALSE, precompile |-> TRUE,
     optimize |-> FALSE, cfg_opts |-> <<>>]

NoFrame == [pc |-> "idle"]
NoTopCall == [name |-> "none"]

\* the three dependency builders, nothing downloaded or built
DepNames == <<"openssl", "bzip2", "xz">>
FreshDep ==
    [lib_products |-> {"lib"}, present |-> {}, archive |-> FALSE, src |-> "absent",
     projectDirs |-> FALSE]
BuiltDep ==
    [lib_products |-> {"lib"}, present |-> {"lib"}, archive |-> TRUE, src |-> "extracted",
     projectDirs |-> TRUE]

IdleDeps == [d \in Range(DepNames) |-> FreshDep]

BuilderIdle ==
    /\ builder = NewBuilder("3.13", "shared_max", <<>>)
    /\ cls = ClassInit
    /\ fs = EmptyFs
    /\ buildTmp = NoTemp
    /\ pkgTemp = NoDir
    /\ deps = IdleDeps
    /\ out = NoManifest
    /\ ar = NoFrame
    /\ pr = NoFrame
    /\ call = NoTopCall
    /\ log = <<>>

(* apply_reductions on an existing build *)

\* the entries lib-dynload may hold before the call: two files one module's
\* patterns match, a file named without a tag, a directory, another module
DynloadSamples ==
    {[name |-> <<"_json", SoTag, "so">>, isFile |-> TRUE],
     [name |-> <<"_json", "abi3", "so">>, isFile |-> TRUE],
     [name |-> <<"_json", "so">>, isFile |-> TRUE],
     [name |-> <<"_json", SoTag, "so">>, isFile |-> FALSE],
     [name |-> <<"_ssl", SoTag, "so">>, isFile |-> TRUE]}

StdlibSamples == {"os.py", "json/", "tkinter/", "turtle.py"}

\* the manifests given to the call: none, or one naming _json and _bz2 and two
\* stdlib paths of which one may not be there
ManifestSamples ==
    {NoManifest}
    \cup [exists : {TRUE},
          extension_patterns : {patterns_of({"_json", "_bz2"}), {}},
          stdlib_to_remove : {{"tkinter/", "turtle.py", "idlelib/"}, {}}]

CopyTargets == {NoPath, CopyDir, ProjectInstall, ProjectInstall \o <<"python-shared">>}

ApplyInit ==
    /\ platform \in Platforms
    /\ builder = NewBuilder("3.13", "shared_mid", <<>>)
    /\ cls = ClassInit
    /\ \E dyn \in SUBSET DynloadSamples, lib \in SUBSET StdlibSamples, there \in BOOLEAN,
          dynExists \in BOOLEAN, stale \in BOOLEAN :
        /\ ~dynExists => dyn = {}
        /\ ~there => (dyn = {} /\ lib = {} /\ ~dynExists)
        /\ fs = [r \in Roots |->
                   IF r = ProjectInstall \o <<"python-shared">> /\ there
                   THEN [exists |-> TRUE, bin |-> TRUE, lib |-> TRUE,
                         dynload |-> IF dynExists THEN DirOf(dyn) ELSE NoDir,
                         stdlib |-> lib, site |-> EmptyDir, zip |-> FALSE,
                         zipped |-> NothingZipped]
                   ELSE IF r = CopyDir /\ stale
                   THEN [exists |-> TRUE, bin |-> FALSE, lib |-> TRUE,
                         dynload |-> NoDir, stdlib |-> {"old.py"}, site |-> NoDir,
                         zip |-> FALSE, zipped |-> NothingZipped]
                   ELSE Absent]
    /\ buildTmp = NoTemp
    /\ pkgTemp = NoDir
    /\ deps = IdleDeps
    /\ out = NoManifest
    /\ ar = NoFrame
    /\ pr = NoFrame
    /\ call = NoTopCall
    /\ log = <<>>

\* builder.apply_reductions(manifest_path, copy_to)
ApplyReductions ==
    /\ call.name = "none"
    /\ \E manifest \in ManifestSamples, copy_to \in CopyTargets :
        LET r == apply_reductions(builder, platform, fs, manifest, copy_to)
        IN  /\ fs' = r.fs
            /\ call' = [name |-> "apply_reductions", manifest |-> manifest,
                      copy_to |-> copy_to, entry |-> fs, ret |-> r.ret, err |-> r.err]
    /\ UNCHANGED <<platform, shellVars, cfgVars, setupVars,
                   builder, cls, buildTmp, pkgTemp, deps, out, ar, pr, log>>

(***************************************************************************)
(* PythonBuilder.process: the build pipeline                               *)
(***************************************************************************)

\* the files of the python source: the archive, the source directory and the
\* Setup.local written into it
FreshSource ==
    [lib_products |-> {}, present |-> {}, archive |-> FALSE, src |-> "absent",
     projectDirs |-> FALSE, setup_local |-> "none"]

\* PythonBuilder.setup: the source directory is always removed and extracted anew
PythonBuilder_setup(s, dl, ex) ==
    LET s1 == [s EXCEPT !.projectDirs = TRUE]
    IN  IF ~s.archive /\ dl = "fail"
        THEN [state |-> s1, err |-> "DownloadError"]
        ELSE [state |-> [s1 EXCEPT !.archive = TRUE,
                                   !.src = IF ex = "ok" THEN "extracted" ELSE "absent",
                                   !.setup_local = "none"],
              err |-> IF ex = "ok" THEN "none" ELSE "ExtractionError"]

\* Config.write: the method named is applied, then every core, shared and
\* static module's build rule is looked up in the extensions table
Config_write(method, c, plat) ==
    LET v == apply_variant(method, c, plat)
        listed == Range(v.core) \cup Range(v.shared) \cup Range(v.static)
    IN  IF v.err # "none" THEN v
        ELSE IF \E n \in listed : n \notin DOMAIN v.extensions
             THEN [v EXCEPT !.err = "KeyError"]
             ELSE v

\* cfg_opt.replace("_", "-") with "--" in front, over the options of the model
cfg_opt_flag(o) ==
    CASE o = "with_lto" -> "--with-lto"
      [] o = "disable_test_modules" -> "--disable-test-modules"
      [] o = "enable_optimizations" -> "--enable-optimizations"

RECURSIVE append_missing(_, _)
\* for cfg_opt in cfg_opts: append its flag unless it is in the list
append_missing(options, opts) ==
    IF opts = <<>> THEN options
    ELSE LET flag == cfg_opt_flag(Head(opts))
         IN  append_missing(IF flag \in Range(options) THEN options
                            ELSE Append(options, flag),
                            Tail(opts))

RECURSIVE path_str(_)
\* str(path): the components joined with "/"
path_str(p) ==
    IF Len(p) = 1 THEN p[1] ELSE p[1] \o "/" \o path_str(Tail(p))

\* f"--enable-framework={self._install_dir}"
framework_flag(dir) == "--enable-framework=" \o path_str(dir)

\* PythonBuilder.configure: the class-level lists grow, Setup.local is written
\* and ./configure is run (fails: it exits nonzero). Result: the class lists,
\* the source state, the exception.
configure(b, c, plat, s, fails) ==
    LET config == get_config(b.ver, plat)
        bt == build_type(b.config)
        o1 == c.config_options \o
                  (CASE bt = "shared" -> <<"--enable-shared", "--without-static-libpython">>
                     [] bt = "framework" -> <<framework_flag(b.install_dir)>>
                     [] OTHER -> <<>>)
        o2 == IF b.optimize THEN Append(o1, "--enable-optimizations") ELSE o1
        o3 == IF b.pkgs = <<>> THEN Append(o2, "--without-ensurepip") ELSE o2
        rp == IF b.pkgs = <<>> THEN Append(c.remove_patterns, "ensurepip")
              ELSE c.remove_patterns
        c1 == [config_options |-> append_missing(o3, b.cfg_opts), remove_patterns |-> rp]
        written == Config_write(b.config, config, plat)
    IN  IF config.err # "none" THEN [cls |-> c, src |-> s, err |-> config.err]
        ELSE IF written.err # "none" THEN [cls |-> c1, src |-> s, err |-> written.err]
        ELSE IF s.src = "absent"
        THEN [cls |-> c1, src |-> s, err |-> "FileNotFoundError"]
        ELSE [cls |-> c1, src |-> [s EXCEPT !.setup_local = b.config],
              err |-> IF fails THEN "CommandError" ELSE "none"]

\* PythonBuilder._is_build_cached: the library and the executable are at the
\* prefix (the library is there whenever the tree is)
is_build_cached(tree) == tree.exists /\ tree.bin

\* a check that always asks for a run
can_run_always(d, tree) == TRUE

\* PythonBuilder.can_run
can_run(d, tree) ==
    \/ \E n \in Range(DepNames) : ~lib_products_exist(d[n])
    \/ ~is_build_cached(tree)

\* PythonBuilder.install: the prefix is removed, then "make install" (fails: it
\* exits nonzero and leaves nothing usable)
install(b, plat, f, fails) ==
    LET there == prefix(b, plat)
        f1 == IF exists_at(f, there) THEN rmtree(f, there) ELSE f
        config == apply_variant(b.config, get_config(b.ver, plat), plat)
    IN  IF fails THEN [fs |-> f1, err |-> "CommandError"]
        ELSE [fs |-> put_tree(f1, there, installed_tree(config)), err |-> "none"]

\* the install_pkgs test of process() without the _skip_pkg_install part
wants_pkgs_ignoring_skip(b) == b.pkgs # <<>>

\* if self.pkgs and not getattr(self, "_skip_pkg_install", False)
wants_pkgs(b) == b.pkgs # <<>> /\ ~b.skip_pkg_install

\* PythonBuilder.post_process: make_relocatable runs install_name_tool on
\* Darwin for a shared build (fails: it exits nonzero); validate_build only logs
post_process(b, plat, fails) ==
    IF plat = "Darwin" /\ build_type(b.config) = "shared" /\ fails
    THEN "CommandError" ELSE "none"

\* the position process() is at once can_run() was evaluated
process_enter(b, plat, d, f) ==
    IF can_run(d, TreeAt(f, prefix(b, plat)))
    THEN [pc |-> "deps", i |-> 1, ran |-> TRUE, err |-> "none"]
    ELSE [pc |-> "returned", i |-> 0, ran |-> FALSE, err |-> "none"]

\* the state a top-level call found, kept to compare with what it left
Entry ==
    [builder |-> builder, fs |-> fs, buildTmp |-> buildTmp, pkgTemp |-> pkgTemp,
     out |-> out, deps |-> deps]

\* the top-level call ends with the value returned or the exception raised
Ended(c, ret, err) == [c EXCEPT !.done = TRUE, !.ret = ret, !.err = err]

\* process() goes on to the next step, or leaves by return or exception; a
\* top-level process() call ends with it
ProcGoes(nextPc, err) ==
    IF err = "none" /\ nextPc # "returned"
    THEN /\ pr' = [pr EXCEPT !.pc = nextPc]
         /\ call' = call
    ELSE /\ pr' = [pr EXCEPT !.pc = IF err = "none" THEN "returned" ELSE "raised",
                             !.err = err]
         /\ call' = IF call.name = "process" THEN Ended(call, "None", err) ELSE call

ProcFrame == UNCHANGED <<platform, shellVars, cfgVars, setupVars, pkgTemp, out, ar>>

\* builder.process() called from outside
Process ==
    /\ call.name = "none"
    /\ LET p == process_enter(builder, platform, deps, fs)
       IN  /\ pr' = p
           /\ call' = [name |-> "process", done |-> ~p.ran, ret |-> "None", err |-> "none",
                       entry |-> Entry]
    /\ log' = <<"process">>
    /\ UNCHANGED <<builder, cls, fs, buildTmp, deps>>
    /\ ProcFrame

\* for dependency_class in self.depends_on: dependency_class().process()
P_Dependency ==
    /\ pr.pc = "deps"
    /\ \E dl \in DownloadOutcomes, ex \in ExtractOutcomes, fails \in BOOLEAN :
        LET name == DepNames[pr.i]
            r == Builder_process(deps[name], dl, ex, fails)
        IN  /\ deps' = [deps EXCEPT ![name] = r.state]
            /\ IF r.err = "none" /\ pr.i < Len(DepNames)
               THEN pr' = [pr EXCEPT !.i = pr.i + 1] /\ call' = call
               ELSE ProcGoes("setup", r.err)
    /\ log' = Append(log, "dependency")
    /\ UNCHANGED <<builder, cls, fs, buildTmp>>
    /\ ProcFrame

\* self.pre_process(); self.setup()
P_Setup ==
    /\ pr.pc = "setup"
    /\ \E dl \in DownloadOutcomes, ex \in ExtractOutcomes :
        LET r == PythonBuilder_setup(deps["Python"], dl, ex)
        IN  /\ deps' = [deps EXCEPT !["Python"] = r.state]
            /\ ProcGoes("configure", r.err)
    /\ log' = log \o <<"pre_process", "setup">>
    /\ UNCHANGED <<builder, cls, fs, buildTmp>>
    /\ ProcFrame

\* self.configure()
P_Configure ==
    /\ pr.pc = "configure"
    /\ \E fails \in BOOLEAN :
        LET r == configure(builder, cls, platform, deps["Python"], fails)
        IN  /\ cls' = r.cls
            /\ deps' = [deps EXCEPT !["Python"] = r.src]
            /\ ProcGoes("build", r.err)
    /\ log' = Append(log, "configure")
    /\ UNCHANGED <<builder, fs, buildTmp>>
    /\ ProcFrame

\* self.build(): make in the source directory
P_Build ==
    /\ pr.pc = "build"
    /\ \E fails \in BOOLEAN : ProcGoes("install", IF fails THEN "CommandError" ELSE "none")
    /\ log' = Append(log, "build")
    /\ UNCHANGED <<builder, cls, fs, buildTmp, deps>>
    /\ ProcFrame

\* self.install()
P_Install ==
    /\ pr.pc = "install"
    /\ \E fails \in BOOLEAN :
        LET r == install(builder, platform, fs, fails)
        IN  /\ fs' = r.fs
            /\ ProcGoes("clean", r.err)
    /\ log' = Append(log, "install")
    /\ UNCHANGED <<builder, cls, buildTmp, deps>>
    /\ ProcFrame

\* self.clean(), and the choice of what follows it
P_Clean ==
    /\ pr.pc = "clean"
    /\ LET there == prefix(builder, platform)
       IN  fs' = put_tree(fs, there, clean_tree(TreeAt(fs, there), cls.remove_patterns))
    /\ ProcGoes(IF builder.skip_ziplib THEN "pkgs" ELSE "ziplib", "none")
    /\ log' = Append(log, "clean")
    /\ UNCHANGED <<builder, cls, buildTmp, deps>>
    /\ ProcFrame

\* self.ziplib() unless skip_ziplib
P_Ziplib ==
    /\ pr.pc = "ziplib"
    /\ \E fails \in BOOLEAN :
        LET there == prefix(builder, platform)
            r == ziplib(TreeAt(fs, there), buildTmp, builder.precompile, fails)
        IN  /\ fs' = put_tree(fs, there, r.tree)
            /\ buildTmp' = r.tmp
            /\ ProcGoes("pkgs", r.err)
    /\ log' = Append(log, "ziplib")
    /\ UNCHANGED <<builder, cls, deps>>
    /\ ProcFrame

\* self.install_pkgs() when packages are wanted
P_InstallPkgs ==
    /\ pr.pc = "pkgs"
    /\ wants_pkgs(builder)
    /\ \E fails \in BOOLEAN :
        LET there == prefix(builder, platform)
            r == install_pkgs(TreeAt(fs, there), builder.pkgs, fails)
        IN  /\ fs' = put_tree(fs, there, r.tree)
            /\ ProcGoes("post_process", r.err)
    /\ log' = Append(log, "install_pkgs")
    /\ UNCHANGED <<builder, cls, buildTmp, deps>>
    /\ ProcFrame

\* install_pkgs() is passed over
P_SkipPkgs ==
    /\ pr.pc = "pkgs"
    /\ ~wants_pkgs(builder)
    /\ ProcGoes("post_process", "none")
    /\ UNCHANGED <<builder, cls, fs, buildTmp, deps, log>>
    /\ ProcFrame

\* self.post_process(), after which process() returns
P_PostProcess ==
    /\ pr.pc = "post_process"
    /\ \E fails \in BOOLEAN : ProcGoes("returned", post_process(builder, platform, fails))
    /\ log' = Append(log, "post_process")
    /\ UNCHANGED <<builder, cls, fs, buildTmp, deps>>
    /\ ProcFrame

ProcessSteps ==
    \/ P_Dependency \/ P_Setup \/ P_Configure \/ P_Build \/ P_Install
    \/ P_Clean \/ P_Ziplib \/ P_InstallPkgs \/ P_SkipPkgs \/ P_PostProcess

(***************************************************************************)
(* The reduction workflows: _analyze_package_deps, auto_configure and      *)
(* auto_reduce                                                             *)
(***************************************************************************)

\* bound on the number of python files found in the downloaded packages
MaxFiles == 1
\* what the analysed files may import: stdlib modules and a third-party one
ImportSamples == {"json", "urllib3"}
ImportSets == SUBSET ImportSamples
\* one more for the calls that end with the analysis: an extension imported by
\* name, which most variants leave disabled
WideImportSamples == ImportSamples \cup {"_ctypes"}
WideImportSets == SUBSET WideImportSamples
\* how the three pip attempts may end: the first works, a later one works after
\* a failure or a missing command, or none does
PipRuns ==
    {<<"ok", "ok", "ok">>, <<"failed", "ok", "ok">>, <<"missing", "failed", "ok">>,
     <<"failed", "missing", "failed">>}

\* what the download directory can hold after the pip attempts: python files
\* only if an attempt exited with status zero, imports only if there are files
downloaded(outcomes, files, imports) ==
    /\ files = 0 => imports = {}
    /\ files > 0 => \E i \in 1..Len(outcomes) : outcomes[i] = "ok"

\* the events of one dependency analysis: the call and its pip attempts
analysis_events(r) == <<"analyze">> \o [i \in 1..Len(r.tried) |-> "pip"]

\* the manifest file auto_configure writes from an analysis result
manifest_of(result) ==
    LET red == reductions_of(result)
    IN  [exists |-> TRUE, extension_patterns |-> red.extension_patterns,
         stdlib_to_remove |-> red.stdlib_to_remove,
         extensions_to_remove |-> red.extensions_to_remove,
         required_extensions |-> result.required_extensions,
         stdlib_imports |-> result.stdlib_imports,
         third_party |-> result.third_party,
         required_but_disabled |-> result.needed_but_disabled]

ManifestPath == <<"reduction-manifest.json">>

\* builder._analyze_package_deps() called from outside
AnalyzeDeps ==
    /\ call.name = "none"
    /\ LET config == configured(builder, platform) IN
       \E outcomes \in PipRuns, files \in 0..MaxFiles, imports \in ImportSets :
        downloaded(outcomes, files, imports) /\
        LET r == _analyze_package_deps(builder, config, outcomes, files, imports)
        IN  /\ call' = [name |-> "_analyze_package_deps", done |-> TRUE, entry |-> Entry,
                        ret |-> IF r.kind = "result" THEN "AnalysisResult" ELSE "None",
                        err |-> IF r.kind = "raise" THEN r.err ELSE "none"]
            /\ log' = analysis_events(r)
    /\ UNCHANGED <<platform, shellVars, cfgVars, setupVars,
                   builder, cls, fs, buildTmp, pkgTemp, deps, out, ar, pr>>

\* builder.auto_configure() called from outside
AutoConfigure ==
    /\ call.name = "none"
    /\ LET config == configured(builder, platform) IN
       \E outcomes \in PipRuns, files \in 0..MaxFiles, imports \in ImportSets :
        downloaded(outcomes, files, imports) /\
        LET r == _analyze_package_deps(builder, config, outcomes, files, imports)
        IN  /\ call' = [name |-> "auto_configure", done |-> TRUE, entry |-> Entry,
                        ret |-> IF r.kind = "result" THEN "manifest path" ELSE "None",
                        err |-> IF r.kind = "raise" THEN r.err ELSE "none"]
            /\ out' = IF r.kind = "result" THEN manifest_of(r) ELSE out
            /\ log' = analysis_events(r)
    /\ UNCHANGED <<platform, shellVars, cfgVars, setupVars,
                   builder, cls, fs, buildTmp, pkgTemp, deps, ar, pr>>

(* the same two calls with the module-level table as part of the state, and
   with their inputs and locals kept in call *)

\* the table once _analyze_package_deps has returned or raised: it constructs
\* a config only past its no-packages guard
table_left(b, table, config) ==
    IF analyze_guard(b.pkgs) THEN table ELSE table_after(table, config)

AnalysisFrame ==
    UNCHANGED <<platform, shellVars, cfg, cfgLog, setupVars,
                builder, cls, fs, buildTmp, pkgTemp, deps, ar, pr>>

\* builder._analyze_package_deps() called from outside
AnalyzeDepsCall ==
    /\ call.name = "none"
    /\ LET config == configured_from(base, builder, platform) IN
       \E outcomes \in PipRuns, files \in 0..MaxFiles, imports \in WideImportSets :
        downloaded(outcomes, files, imports) /\
        LET r == _analyze_package_deps(builder, config, outcomes, files, imports)
        IN  /\ call' = [name |-> "_analyze_package_deps", done |-> TRUE, entry |-> Entry,
                        ret |-> IF r.kind = "result" THEN "AnalysisResult" ELSE "None",
                        err |-> IF r.kind = "raise" THEN r.err ELSE "none",
                        run |-> 1, outcomes |-> outcomes, files |-> files,
                        imports |-> imports, config |-> config, result |-> r]
            /\ base' = table_left(builder, base, config)
            /\ log' = analysis_events(r)
    /\ out' = out
    /\ AnalysisFrame

\* builder.auto_configure() called from outside, and called once more on the
\* same builder when the download and the files are the same again
AutoConfigureCall ==
    /\ \/ call.name = "none"
       \/ call.name = "auto_configure" /\ call.run = 1
    /\ LET config == configured_from(base, builder, platform) IN
       \E outcomes \in PipRuns, files \in 0..MaxFiles, imports \in WideImportSets :
        /\ downloaded(outcomes, files, imports)
        /\ call.name = "auto_configure" =>
               /\ outcomes = call.outcomes
               /\ files = call.files
               /\ imports = call.imports
        /\ LET r == _analyze_package_deps(builder, config, outcomes, files, imports)
           IN  /\ call' = [name |-> "auto_configure", done |-> TRUE,
                           entry |-> IF call.name = "none" THEN Entry ELSE call.entry,
                           ret |-> IF r.kind = "result" THEN "manifest path" ELSE "None",
                           err |-> IF r.kind = "raise" THEN r.err ELSE "none",
                           run |-> IF call.name = "none" THEN 1 ELSE 2,
                           outcomes |-> outcomes, files |-> files,
                           imports |-> imports, config |-> config, result |-> r,
                           first |-> IF call.name = "none" THEN NoTopCall
                                     ELSE [ret |-> call.ret, err |-> call.err,
                                           out |-> out, pips |-> Len(log)]]
               /\ base' = table_left(builder, base, config)
               /\ out' = IF r.kind = "result" THEN manifest_of(r) ELSE out
               /\ log' = analysis_events(r)
    /\ AnalysisFrame

ReduceFrame == UNCHANGED <<platform, shellVars, cfgVars, setupVars, cls, deps, out>>

\* builder.auto_reduce() called from outside: the no-packages guard, and step 1,
\* the analysis under the shared_vanilla configuration
AutoReduce ==
    /\ call.name = "none"
    /\ LET entered == [name |-> "auto_reduce", done |-> FALSE, entry |-> Entry,
                       ret |-> "None", err |-> "none"]
       IN
       IF builder.pkgs = <<>>
       THEN /\ call' = Ended(entered, "False", "none")
            /\ log' = <<>>
            /\ UNCHANGED <<builder, ar>>
       ELSE LET swapped == [builder EXCEPT !.config = "shared_vanilla"]
                config == configured(swapped, platform)
            IN
            \E outcomes \in PipRuns, files \in 0..MaxFiles, imports \in ImportSets :
            downloaded(outcomes, files, imports) /\
            LET r == _analyze_package_deps(swapped, config, outcomes, files, imports)
            IN  /\ log' = analysis_events(r)
                /\ IF r.kind = "raise"
                   THEN /\ builder' = swapped
                        /\ call' = Ended(entered, "None", r.err)
                        /\ ar' = ar
                   ELSE /\ builder' = builder
                        /\ call' = entered
                        /\ ar' = [pc |-> "prepare", manifest |-> manifest_of(r),
                                  pkg_temp_dir |-> FALSE]
    /\ UNCHANGED <<fs, buildTmp, pkgTemp, pr>>
    /\ ReduceFrame

\* a test of the cache that never finds it
vanilla_cached_never(f) == FALSE

\* vanilla_cache.exists()
vanilla_cached(f) == exists_at(f, VanillaCache)

\* step 2: with no vanilla cache, the fields are swapped and process() is called
AR_BuildVanilla ==
    /\ ar.pc = "prepare"
    /\ ~vanilla_cached(fs)
    /\ LET swapped == [builder EXCEPT !.config = "shared_vanilla",
                                      !.install_dir = VanillaCache,
                                      !.skip_ziplib = TRUE,
                                      !.skip_pkg_install = TRUE]
       IN  /\ builder' = swapped
           /\ pr' = process_enter(swapped, platform, deps, fs)
           /\ ar' = [ar EXCEPT !.pc = "building"] @@
                    [original_config |-> builder.config,
                     original_install_dir |-> builder.install_dir,
                     original_skip_ziplib |-> builder.skip_ziplib]
    /\ log' = Append(log, "process")
    /\ UNCHANGED <<fs, buildTmp, pkgTemp, call>>
    /\ ReduceFrame

\* step 2, when process() has left: the finally block, and return False on an
\* exception
AR_AfterBuild ==
    /\ ar.pc = "building"
    /\ pr.pc \in {"returned", "raised"}
    /\ builder' = [builder EXCEPT !.config = ar.original_config,
                                  !.install_dir = ar.original_install_dir,
                                  !.skip_ziplib = ar.original_skip_ziplib,
                                  !.skip_pkg_install = FALSE]
    /\ pr' = NoFrame
    /\ IF pr.pc = "raised"
       THEN /\ call' = Ended(call, "False", "none")
            /\ ar' = [ar EXCEPT !.pc = "left"]
       ELSE /\ call' = call
            /\ ar' = [ar EXCEPT !.pc = "copy"]
    /\ UNCHANGED <<fs, buildTmp, pkgTemp, log>>
    /\ ReduceFrame

\* step 2: the vanilla cache is there and is used as it is
AR_UseCache ==
    /\ ar.pc = "prepare"
    /\ vanilla_cached(fs)
    /\ ar' = [ar EXCEPT !.pc = "copy"]
    /\ UNCHANGED <<builder, fs, buildTmp, pkgTemp, pr, call, log>>
    /\ ReduceFrame

\* the auto_reduce call leaves by an exception
AR_Raises(err) ==
    /\ call' = Ended(call, "None", err)
    /\ ar' = [ar EXCEPT !.pc = "left"]

\* the copy of the vanilla cache to the reduced prefix
AR_Copy ==
    /\ ar.pc = "copy"
    /\ LET f1 == IF exists_at(fs, ReducedPrefix) THEN rmtree(fs, ReducedPrefix) ELSE fs
       IN  IF TreeAt(f1, VanillaCache).exists
           THEN /\ fs' = put_tree(f1, ReducedPrefix, TreeAt(f1, VanillaCache))
                /\ ar' = [ar EXCEPT !.pc = "install_pkgs"]
                /\ call' = call
           ELSE /\ fs' = f1
                /\ AR_Raises("FileNotFoundError")
    /\ log' = Append(log, "copy")
    /\ UNCHANGED <<builder, buildTmp, pkgTemp, pr>>
    /\ ReduceFrame

\* step 3: install_pkgs() with the install directory set to the reduced prefix
\* and set back in the finally block
AR_InstallPkgs ==
    /\ ar.pc = "install_pkgs"
    /\ \E fails \in BOOLEAN :
        LET there == prefix([builder EXCEPT !.install_dir = ReducedPrefix], platform)
            r == install_pkgs(TreeAt(fs, there), builder.pkgs, fails)
        IN  /\ fs' = put_tree(fs, there, r.tree)
            /\ IF r.err = "none"
               THEN ar' = [ar EXCEPT !.pc = "move_pkgs"] /\ call' = call
               ELSE AR_Raises(r.err)
    /\ log' = Append(log, "install_pkgs")
    /\ UNCHANGED <<builder, buildTmp, pkgTemp, pr>>
    /\ ReduceFrame

\* step 3: site-packages is moved to build/pkg_temp and made anew, empty
AR_MovePkgs ==
    /\ ar.pc = "move_pkgs"
    /\ LET t == TreeAt(fs, ReducedPrefix)
       IN  /\ pkgTemp' = IF t.site.exists THEN t.site ELSE NoDir
           /\ fs' = put_tree(fs, ReducedPrefix, [t EXCEPT !.site = EmptyDir])
           /\ ar' = [ar EXCEPT !.pc = "reduce", !.pkg_temp_dir = t.site.exists]
    /\ log' = Append(log, "move_pkgs")
    /\ UNCHANGED <<builder, buildTmp, pr, call>>
    /\ ReduceFrame

\* step 4: the removals of the manifest, on the reduced copy
AR_Reduce ==
    /\ ar.pc = "reduce"
    /\ LET t == TreeAt(fs, ReducedPrefix)
       IN  fs' = put_tree(fs, ReducedPrefix,
                          remove_stdlib(remove_extensions(t, ar.manifest.extension_patterns),
                                        ar.manifest.stdlib_to_remove))
    /\ ar' = [ar EXCEPT !.pc = "ziplib"]
    /\ log' = Append(log, "reduce")
    /\ UNCHANGED <<builder, buildTmp, pkgTemp, pr, call>>
    /\ ReduceFrame

\* step 5: ziplib() with the install directory set to the reduced prefix and
\* set back in the finally block
AR_Ziplib ==
    /\ ar.pc = "ziplib"
    /\ \E fails \in BOOLEAN :
        LET there == prefix([builder EXCEPT !.install_dir = ReducedPrefix], platform)
            r == ziplib(TreeAt(fs, there), buildTmp, builder.precompile, fails)
        IN  /\ fs' = put_tree(fs, there, r.tree)
            /\ buildTmp' = r.tmp
            /\ IF r.err = "none"
               THEN ar' = [ar EXCEPT !.pc = "restore"] /\ call' = call
               ELSE AR_Raises(r.err)
    /\ log' = Append(log, "ziplib")
    /\ UNCHANGED <<builder, pkgTemp, pr>>
    /\ ReduceFrame

\* step 6: the packages are copied back from build/pkg_temp, which is removed,
\* and pip and setuptools are deleted from site-packages
AR_Restore ==
    /\ ar.pc = "restore"
    /\ IF ar.pkg_temp_dir /\ pkgTemp.exists
       THEN LET t == TreeAt(fs, ReducedPrefix)
            IN  /\ fs' = put_tree(fs, ReducedPrefix,
                           [t EXCEPT !.site = DirOf({n \in pkgTemp.items : ~is_cruft(n)})])
                /\ pkgTemp' = NoDir
                /\ log' = Append(log, "restore")
       ELSE UNCHANGED <<fs, pkgTemp, log>>
    /\ ar' = [ar EXCEPT !.pc = "verify"]
    /\ UNCHANGED <<builder, buildTmp, pr, call>>
    /\ ReduceFrame

\* "python3 -c import pkg" can exit 0 for every package only if the interpreter
\* is there and each package is in site-packages
can_import(tree, pkgs) == tree.bin /\ \A p \in Range(pkgs) : p \in tree.site.items

\* the verification: each package is imported with the reduced interpreter,
\* and auto_reduce returns whether all imports passed
AR_Verify ==
    /\ ar.pc = "verify"
    /\ \E passed \in BOOLEAN :
        call' = Ended(call, IF passed /\ can_import(TreeAt(fs, ReducedPrefix), builder.pkgs)
                            THEN "True" ELSE "False", "none")
    /\ ar' = [ar EXCEPT !.pc = "left"]
    /\ log' = Append(log, "verify")
    /\ UNCHANGED <<builder, fs, buildTmp, pkgTemp, pr>>
    /\ ReduceFrame

(* the builders and files the calls start from *)

\* python runs as PythonBuilder on these; Windows has its own builder class
UnixPlatforms == {"Darwin", "Linux"}
\* an unsupported version, one every platform configures, and the default
BuilderVersions == {"3.10", "3.12", "3.13"}
PkgLists == {<<>>, <<"requests">>, <<"requests", "setuptools">>}

\* a finished shared_vanilla build, as process() leaves it in the cache
VanillaTree ==
    clean_tree(installed_tree(apply_variant("shared_vanilla", get_config("3.12", "Darwin"),
                                          "Darwin")),
               RemovePatterns)

AllDeps(d) == [n \in Range(DepNames) \cup {"Python"} |-> IF n = "Python" THEN FreshSource ELSE d]

ReduceInit ==
    /\ platform \in UnixPlatforms
    /\ \E ver \in BuilderVersions, config \in {"shared_mid", "framework_max"},
          pkgs \in PkgLists, skip \in BOOLEAN,
          dir \in {ProjectInstall, CustomDir} :
        builder = [NewBuilder(ver, config, pkgs) EXCEPT
                      !.skip_ziplib = skip, !.install_dir = dir]
    /\ cls = ClassInit
    /\ \E cached \in BOOLEAN :
        fs = [r \in Roots |-> IF r = VanillaCache /\ cached THEN VanillaTree ELSE Absent]
    /\ buildTmp = NoTemp
    /\ pkgTemp \in {NoDir, DirOf({"stale"})}
    /\ deps = AllDeps(BuiltDep)
    /\ out = NoManifest
    /\ ar = NoFrame
    /\ pr = NoFrame
    /\ call = NoTopCall
    /\ log = <<>>

\* every variant and version for the calls that end with the analysis
AnalysisInit ==
    /\ platform \in UnixPlatforms
    /\ \E ver \in Versions, config \in Variants, pkgs \in {<<>>, <<"requests">>} :
        builder = NewBuilder(ver, config, pkgs)
    /\ cls = ClassInit
    /\ fs = EmptyFs
    /\ buildTmp = NoTemp
    /\ pkgTemp = NoDir
    /\ deps = AllDeps(FreshDep)
    /\ out = NoManifest
    /\ ar = NoFrame
    /\ pr = NoFrame
    /\ call = NoTopCall
    /\ log = <<>>

\* the build an earlier run for this configuration left at the prefix
BuiltTree(b, plat) == clean_tree(installed_tree(configured(b, plat)), RemovePatterns)

ProcessInit ==
    /\ platform \in UnixPlatforms
    /\ \E ver \in BuilderVersions, config \in Variants, pkgs \in PkgLists,
          skip \in BOOLEAN, pre \in BOOLEAN :
        builder = [NewBuilder(ver, config, pkgs) EXCEPT
                      !.skip_ziplib = skip, !.precompile = pre]
    /\ cls = ClassInit
    /\ \E built \in BOOLEAN :
        fs = IF built /\ configured(builder, platform).err = "none"
             THEN put_tree(EmptyFs, prefix(builder, platform), BuiltTree(builder, platform))
             ELSE EmptyFs
    /\ buildTmp = NoTemp
    /\ pkgTemp = NoDir
    /\ deps \in {AllDeps(FreshDep), AllDeps(BuiltDep)}
    /\ out = NoManifest
    /\ ar = NoFrame
    /\ pr = NoFrame
    /\ call = NoTopCall
    /\ log = <<>>

(* dry_run and configure called on a builder *)

\* a list another name was bound to: what is appended shows in it
list_aliased(l, grown) == grown

\* self.config_options.copy(): what is appended to the copy leaves l as it was
list_copied(l, grown) == l

\* PythonBuilder.dry_run: the configuration is constructed and its variant
\* applied, the options are collected on a copy of the class-level list, and
\* the plan is printed. Result: the exception, the options and buckets printed.
dry_run(b, c, table, plat) ==
    LET config == configured_from(table, b, plat)
        bt == build_type(b.config)
        o1 == Append(c.config_options,
                     CASE bt = "static" -> "--disable-shared"
                       [] bt = "shared" -> "--enable-shared"
                       [] bt = "framework" -> "--enable-framework")
        o2 == IF b.optimize THEN Append(o1, "--enable-optimizations") ELSE o1
        o3 == IF b.pkgs = <<>> THEN Append(o2, "--without-ensurepip") ELSE o2
        options == append_missing(o3, b.cfg_opts)
    IN  IF config.err # "none"
        THEN [err |-> config.err, printed |-> FALSE, options |-> <<>>, config |-> config]
        ELSE [err |-> "none", printed |-> TRUE, options |-> options, config |-> config]

NothingShown == [printed |-> FALSE, options |-> <<>>]
NothingPassed == [ran |-> FALSE, options |-> <<>>]
NoPlanCall ==
    [name |-> "none", done |-> FALSE, err |-> "none", calls |-> 0,
     shown |-> NothingShown, passed |-> NothingPassed]

\* how many calls the model makes on one builder
MaxCalls == 2

PlanFrame ==
    UNCHANGED <<platform, shellVars, cfg, cfgLog, setupVars,
                fs, buildTmp, pkgTemp, out, ar, pr>>

\* builder.dry_run() called from outside
DryRunCall ==
    /\ call.calls < MaxCalls
    /\ LET r == dry_run(builder, cls, base, platform)
       IN  /\ call' = [name |-> "dry_run", done |-> TRUE, err |-> r.err,
                       calls |-> call.calls + 1,
                       shown |-> [printed |-> r.printed, options |-> r.options],
                       passed |-> call.passed,
                       entry |-> Entry, cls0 |-> cls, log0 |-> log, base0 |-> base]
           /\ cls' = [cls EXCEPT !.config_options = list_copied(@, r.options)]
           /\ base' = table_after(base, r.config)
    /\ log' = Append(log, "dry_run")
    /\ UNCHANGED <<builder, deps>>
    /\ PlanFrame

\* builder.configure() called from outside
ConfigureCall ==
    /\ call.calls < MaxCalls
    /\ \E fails \in BOOLEAN :
        LET r == configure(builder, cls, platform, deps["Python"], fails)
        IN  /\ call' = [name |-> "configure", done |-> TRUE, err |-> r.err,
                        calls |-> call.calls + 1,
                        shown |-> call.shown,
                        passed |-> IF r.err \in {"none", "CommandError"}
                                   THEN [ran |-> TRUE, options |-> r.cls.config_options]
                                   ELSE call.passed,
                        entry |-> Entry, cls0 |-> cls, log0 |-> log, base0 |-> base]
            /\ cls' = r.cls
            /\ deps' = [deps EXCEPT !["Python"] = r.src]
    /\ log' = Append(log, "configure")
    /\ UNCHANGED <<builder, base>>
    /\ PlanFrame

\* the python source as setup() leaves it
ExtractedSource == [FreshSource EXCEPT !.archive = TRUE, !.src = "extracted",
                                       !.projectDirs = TRUE]

CfgOptLists == {<<>>, <<"with_lto">>, <<"enable_optimizations", "disable_test_modules">>}

PlanInit ==
    /\ platform \in UnixPlatforms
    /\ \E ver \in BuilderVersions, config \in Variants, pkgs \in {<<>>, <<"requests">>},
          optimize \in BOOLEAN, cfg_opts \in CfgOptLists,
          dir \in {ProjectInstall, CustomDir} :
        builder = [NewBuilder(ver, config, pkgs) EXCEPT
                      !.optimize = optimize, !.cfg_opts = cfg_opts, !.install_dir = dir]
    /\ cls = ClassInit
    /\ fs = EmptyFs
    /\ buildTmp = NoTemp
    /\ pkgTemp = NoDir
    /\ deps = [AllDeps(BuiltDep) EXCEPT !["Python"] = ExtractedSource]
    /\ out = NoManifest
    /\ ar = NoFrame
    /\ pr = NoFrame
    /\ call = NoPlanCall
    /\ log = <<>>

(* main: the command line *)

\* PLATFORM_INFO.get_build_types()
BUILD_TYPES(plat) ==
    CASE plat = "Darwin" ->
             {"local", "shared-ext", "static-ext", "framework-ext", "framework-pkg"}
      [] plat = "Windows" -> {"local", "windows-pkg"}
      [] plat = "Linux" -> {"local", "shared-ext", "static-ext"}

\* the values of --type in the model: not given, and three build types
TypeArgs == {"none", "local", "shared-ext", "windows-pkg"}

\* the parsed command line: the flags main branches on
MainArgs ==
    [dry_run : BOOLEAN, ziplib : BOOLEAN, write : BOOLEAN, json : BOOLEAN,
     size_report : BOOLEAN, auto_reduce : BOOLEAN, analyze_deps : BOOLEAN,
     auto_config : BOOLEAN, apply_reductions : BOOLEAN, reset : BOOLEAN,
     embeddable_pkg : BOOLEAN, type : TypeArgs]

\* the chain of `if args.<flag>:` blocks both branches of main end with; ok is
\* what auto_reduce and apply_reductions return
main_dispatch(args, ok, done) ==
    IF args.dry_run THEN [log |-> done \o <<"dry_run">>, exit |-> "0"]
    ELSE IF args.size_report THEN [log |-> done \o <<"size_report">>, exit |-> "0"]
    ELSE IF args.auto_reduce
    THEN [log |-> done \o <<"auto_reduce">>, exit |-> IF ok THEN "0" ELSE "1"]
    ELSE IF args.analyze_deps
    THEN [log |-> done \o <<"analyze_deps">>
                  \o (IF args.auto_config THEN <<"auto_configure">> ELSE <<>>),
          exit |-> "0"]
    ELSE IF args.apply_reductions
    THEN [log |-> done \o <<"apply_reductions">>, exit |-> IF ok THEN "0" ELSE "1"]
    ELSE [log |-> done \o (IF args.reset THEN <<"remove">> ELSE <<>>) \o <<"process">>,
          exit |-> "0"]

\* main(): the builder methods and config writers it calls, in order, and how
\* the program exits ("0" also stands for returning from main)
main(args, plat, prefix_exists, ok) ==
    IF plat = "Windows" /\ args.embeddable_pkg
    THEN [log |-> <<"embeddable setup">>, exit |-> "0"]
    ELSE IF plat \notin {"Darwin", "Windows"}
    THEN [log |-> <<>>, exit |-> "NotImplementedError"]
    ELSE IF args.type # "none" /\ args.type \in BUILD_TYPES(plat)
    THEN IF args.type = "local" THEN [log |-> <<>>, exit |-> "0"]
         ELSE main_dispatch(args, ok, <<>>)
    ELSE IF args.ziplib
    THEN IF ~prefix_exists THEN [log |-> <<>>, exit |-> "1"]
         ELSE [log |-> <<"ziplib">>, exit |-> "0"]
    ELSE IF args.write /\ args.json THEN [log |-> <<"write_json">>, exit |-> "0"]
    ELSE main_dispatch(args, ok, IF args.write THEN <<"write">> ELSE <<>>)

\* one run of the program with any command line
MainCall ==
    /\ call.name = "none"
    /\ \E args \in MainArgs, prefix_exists \in BOOLEAN, ok \in BOOLEAN :
        LET r == main(args, platform, prefix_exists, ok)
        IN  /\ call' = [name |-> "main", done |-> TRUE, args |-> args,
                        prefix_exists |-> prefix_exists, exit |-> r.exit]
            /\ log' = r.log
    /\ UNCHANGED <<platform, shellVars, cfgVars, setupVars,
                   builder, cls, fs, buildTmp, pkgTemp, deps, out, ar, pr>>

(* install() and ziplib() called on a builder whose build is installed *)
MaxSteps == 3

NoZipCall == [name |-> "none", err |-> "none", calls |-> 0, before |-> NoDir]

ZipInit ==
    /\ platform \in UnixPlatforms
    /\ \E ver \in BuilderVersions, config \in Variants, pre \in BOOLEAN :
        /\ configured(NewBuilder(ver, config, <<>>), platform).err = "none"
        /\ builder = [NewBuilder(ver, config, <<>>) EXCEPT !.precompile = pre]
    /\ cls = ClassInit
    /\ fs = put_tree(EmptyFs, prefix(builder, platform), BuiltTree(builder, platform))
    /\ buildTmp = NoTemp
    /\ pkgTemp = NoDir
    /\ deps = AllDeps(BuiltDep)
    /\ out = NoManifest
    /\ ar = NoFrame
    /\ pr = NoFrame
    /\ call = NoZipCall
    /\ log = <<>>

\* builder.install(): make install into the prefix
InstallCall ==
    /\ call.calls < MaxSteps
    /\ \E fails \in BOOLEAN :
        LET r == install(builder, platform, fs, fails)
        IN  /\ fs' = r.fs
            /\ call' = [name |-> "install", err |-> r.err, calls |-> call.calls + 1,
                        before |-> TreeAt(fs, prefix(builder, platform)).dynload]
    /\ log' = Append(log, "install")
    /\ UNCHANGED <<builder, cls, buildTmp, deps, pr>>
    /\ ProcFrame

\* builder.ziplib(), as main() calls it for --ziplib
ZiplibCall ==
    /\ call.calls < MaxSteps
    /\ \E fails \in BOOLEAN :
        LET there == prefix(builder, platform)
            r == ziplib(TreeAt(fs, there), buildTmp, builder.precompile, fails)
        IN  /\ fs' = put_tree(fs, there, r.tree)
            /\ buildTmp' = r.tmp
            /\ call' = [name |-> "ziplib", err |-> r.err, calls |-> call.calls + 1,
                        before |-> TreeAt(fs, there).dynload]
    /\ log' = Append(log, "ziplib")
    /\ UNCHANGED <<builder, cls, deps, pr>>
    /\ ProcFrame

(***************************************************************************)
(* Specifications                                                          *)
(***************************************************************************)

ShellNext == CmdCall
ShellPlatform == platform = "Linux"
ShellStart == ShellInit /\ ShellPlatform /\ CfgIdle /\ SetupIdle /\ BuilderIdle
SpecShell == ShellStart /\ [][ShellNext]_vars

CfgNext == Construct \/ ApplyVariant \/ MoveOp
CfgStart == CfgInit /\ ShellInit /\ SetupIdle /\ BuilderIdle
SpecConfig == CfgStart /\ [][CfgNext]_vars

DownloadNext == DownloadCall
DownloadStart ==
    DownloadInit /\ platform \in {"Darwin", "Linux"} /\ ShellInit /\ CfgIdle /\ BldIdle
    /\ BuilderIdle
SpecDownload == DownloadStart /\ [][DownloadNext]_vars

ExtractNext == SafeExtractCall
ExtractStart ==
    platform \in {"Darwin", "Linux"} /\ ShellInit /\ CfgIdle /\ SetupIdle /\ BuilderIdle
SpecExtract == ExtractStart /\ [][ExtractNext]_vars

SetupNext == Setup \/ Build
SetupStart == SetupInit /\ ShellPlatform /\ ShellInit /\ CfgIdle /\ BuilderIdle
SpecSetup == SetupStart /\ [][SetupNext]_vars

ProcessNext == Process \/ ProcessSteps
ProcessStart == ProcessInit /\ ShellInit /\ CfgIdle /\ SetupIdle
SpecProcess == ProcessStart /\ [][ProcessNext]_vars

ReduceNext ==
    \/ AnalyzeDeps \/ AutoConfigure \/ Process \/ AutoReduce
    \/ AR_BuildVanilla \/ ProcessSteps \/ AR_AfterBuild \/ AR_UseCache
    \/ AR_Copy \/ AR_InstallPkgs \/ AR_MovePkgs \/ AR_Reduce \/ AR_Ziplib
    \/ AR_Restore \/ AR_Verify
ReduceStart == ReduceInit /\ ShellInit /\ CfgIdle /\ SetupIdle
SpecReduce == ReduceStart /\ [][ReduceNext]_vars

AnalysisNext == AnalyzeDepsCall \/ AutoConfigureCall
AnalysisStart == AnalysisInit /\ ShellInit /\ CfgIdle /\ SetupIdle
SpecAnalysis == AnalysisStart /\ [][AnalysisNext]_vars

PlanNext == DryRunCall \/ ConfigureCall
PlanStart == PlanInit /\ ShellInit /\ CfgIdle /\ SetupIdle
SpecPlan == PlanStart /\ [][PlanNext]_vars

MainNext == MainCall
MainStart ==
    platform \in Platforms /\ ShellInit /\ CfgIdle /\ SetupIdle /\ BuilderIdle
SpecMain == MainStart /\ [][MainNext]_vars

ZipNext == InstallCall \/ ZiplibCall
ZipStart == ZipInit /\ ShellInit /\ CfgIdle /\ SetupIdle
SpecZiplib == ZipStart /\ [][ZipNext]_vars

ApplyNext == ApplyReductions
ApplyStart == ApplyInit /\ ShellInit /\ CfgIdle /\ SetupIdle
SpecApply == ApplyStart /\ [][ApplyNext]_vars

(***************************************************************************)
(* Properties                                                              *)
(***************************************************************************)

\* C1: cmd() raises CommandError whenever the command it ran exited with a
\* nonzero status, for a string run through the shell, a string split into
\* arguments and a list alike, and returns normally when it exited with zero.
C1_NonzeroExitRaises ==
    (shell.called /\ shell.ran) =>
        /\ shell.exit # 0 => shell.result = "CommandError"
        /\ shell.exit = 0 => shell.result = "returned"

\* a command given as a list ran, exited nonzero, and cmd() raised CommandError
C1_Witness ==
    /\ shell.called /\ shell.ran /\ shell.exit # 0
    /\ ~shell.command.isStr
    /\ shell.result = "CommandError"

\* C2: a bucket-move method leaves the two buckets it does not name and the
\* extensions table as they were and keeps the union of the four buckets;
\* when it returns, every named module is out of the source bucket and in the
\* destination bucket.
C2_BucketMoveFrame ==
    cfgLog.phase = "moved" =>
        LET before == cfgLog.before
            src == MoveSrc(cfgLog.op)
            dst == MoveDst(cfgLog.op)
        IN  /\ \A k \in Buckets \ {src, dst} : cfg[k] = before[k]
            /\ cfg.extensions = before.extensions
            /\ BucketUnion(cfg) = BucketUnion(before)
            /\ cfg.err = "none" =>
                   \A n \in Range(cfgLog.names) :
                       n \notin Range(cfg[src]) /\ n \in Range(cfg[dst])

\* two different modules were moved by one call
C2_Witness ==
    /\ cfgLog.phase = "moved"
    /\ cfg.err = "none"
    /\ Len(cfgLog.names) = 2
    /\ cfg # cfgLog.before

\* C7: apply_reductions with copy_to given leaves the original build at the
\* builder's prefix with exactly the files it had, and a path it returns is
\* the copy directory.
C7_CopyLeavesOriginal ==
    (call.name = "apply_reductions" /\ call.manifest.exists /\ call.copy_to # NoPath) =>
        /\ TreeAt(fs, prefix(builder, platform)) = TreeAt(call.entry, prefix(builder, platform))
        /\ call.ret # NoPath => call.ret = call.copy_to

\* C8: when apply_reductions returns a path, no regular file of the target's
\* lib-dynload matches a manifest extension pattern and no listed stdlib path
\* is left; every other entry the build had is still there; and a listed path
\* that was not there raises nothing.
C8_ReductionsApplied ==
    (call.name = "apply_reductions" /\ call.manifest.exists) =>
        LET before == TreeAt(call.entry, prefix(builder, platform))
            patterns == call.manifest.extension_patterns
            listed == call.manifest.stdlib_to_remove
            hit(e) == e.isFile /\ \E p \in patterns : glob_match(p, e.name)
        IN  /\ call.ret # NoPath =>
                LET after == TreeAt(fs, call.ret)
                IN  /\ \A e \in after.dynload.items : ~hit(e)
                    /\ after.stdlib \cap listed = {}
                    /\ after.dynload.items = {e \in before.dynload.items : ~hit(e)}
                    /\ after.stdlib = before.stdlib \ listed
            /\ (call.copy_to = NoPath /\ before.lib) =>
                   call.err = "none" /\ call.ret = prefix(builder, platform)

\* an in-place call removed both files of _json and tkinter/, kept the
\* untagged file, the directory, _ssl and json/, and idlelib/ was listed
\* without being there
C8_Witness ==
    /\ call.name = "apply_reductions" /\ call.manifest.exists
    /\ call.copy_to = NoPath /\ call.ret = prefix(builder, platform)
    /\ LET before == TreeAt(call.entry, call.ret)
           after == TreeAt(fs, call.ret)
       IN  /\ before.dynload.items = DynloadSamples
           /\ after.dynload.items =
                  {e \in DynloadSamples : ~e.isFile \/ Len(e.name) = 2 \/ e.name[1] = "_ssl"}
           /\ before.stdlib = StdlibSamples
           /\ after.stdlib = {"os.py", "json/"}
           /\ "idlelib/" \in call.manifest.stdlib_to_remove

CountLog(e) == Cardinality({i \in 1..Len(log) : log[i] = e})

\* the steps of auto_reduce in the order of its code
ReduceOrder ==
    <<"analyze", "process", "copy", "install_pkgs", "move_pkgs", "reduce", "ziplib",
      "restore", "verify">>

StepIndex(e) == CHOOSE i \in 1..Len(ReduceOrder) : ReduceOrder[i] = e

\* the steps of auto_reduce among the calls of log
steps_of(l) == SelectSeq(l, LAMBDA e : e \in Range(ReduceOrder))

\* C3: auto_reduce has put config, install directory and skip_ziplib back to
\* their values before the call whenever it has returned or raised, and while
\* the vanilla build runs the config is shared_vanilla.
C3_RestoresSettings ==
    /\ (call.name = "auto_reduce" /\ call.done) =>
          /\ builder.config = call.entry.builder.config
          /\ builder.install_dir = call.entry.builder.install_dir
          /\ builder.skip_ziplib = call.entry.builder.skip_ziplib
    /\ (call.name = "auto_reduce" /\ ar.pc = "building") =>
          builder.config = "shared_vanilla"

\* the steps auto_reduce has taken are in the order of ReduceOrder, each at most
\* once, and none is left out once the verification is reached
C4_FixedOrder ==
    call.name = "auto_reduce" =>
        LET s == steps_of(log)
        IN  /\ \A i, j \in 1..Len(s) : i < j => StepIndex(s[i]) < StepIndex(s[j])
            /\ "verify" \in Range(s) =>
                  /\ {"analyze", "copy", "install_pkgs", "move_pkgs", "reduce",
                      "ziplib", "restore"} \subseteq Range(s)
                  /\ CountLog("ziplib") = 1
                  /\ "process" \in Range(s) <=> ~exists_at(call.entry.fs, VanillaCache)

\* site-packages of the reduced build is empty when ziplib starts, and nothing
\* of it is in the archive ziplib has made
C4_PackagesOutsideZip ==
    call.name = "auto_reduce" =>
        /\ ar.pc = "ziplib" => TreeAt(fs, ReducedPrefix).site.items = {}
        /\ "ziplib" \in Range(log) => TreeAt(fs, ReducedPrefix).zipped.site = {}

\* every package asked for is in site-packages of the reduced build when
\* auto_reduce returns from its verification
C4_PackagesPresentOnReturn ==
    (call.name = "auto_reduce" /\ call.done /\ "verify" \in Range(log)) =>
        \A p \in Range(builder.pkgs) : p \in TreeAt(fs, ReducedPrefix).site.items

\* C4: auto_reduce takes its steps in one fixed order (analysis, vanilla build
\* if the cache is absent, copy, package install, move of site-packages,
\* removals, ziplib exactly once, restore); the installed packages are not in
\* the tree ziplib archives, and they are in site-packages on return.
C4_OrderedWorkflow ==
    C4_FixedOrder /\ C4_PackagesOutsideZip /\ C4_PackagesPresentOnReturn

\* C5: auto_reduce never calls process() when install/python-shared-vanilla
\* exists and never calls it twice; when the directory is absent it calls
\* process() exactly once as soon as it gets past the dependency analysis, and
\* not at all when it leaves before (no packages, or the analysis raised).
C5_ProcessOnceIfNoCache ==
    call.name = "auto_reduce" =>
        LET cached == exists_at(call.entry.fs, VanillaCache)
            n == CountLog("process")
        IN  /\ cached => n = 0
            /\ n <= 1
            /\ (~cached /\ ar.pc \notin {"idle", "prepare"}) => n = 1
            /\ ar.pc = "idle" => n = 0

C5_Witness ==
    /\ call.name = "auto_reduce" /\ call.done /\ call.ret = "True"
    /\ ~exists_at(call.entry.fs, VanillaCache)
    /\ CountLog("process") = 1

\* C5 as first stated: once auto_reduce has ended, process() was called exactly
\* once if the vanilla cache was absent, and never if it was there.
C5_ProcessOnceWheneverNoCache ==
    (call.name = "auto_reduce" /\ call.done) =>
        CountLog("process") = IF exists_at(call.entry.fs, VanillaCache) THEN 0 ELSE 1

\* C6: with no packages, _analyze_package_deps and auto_configure return None
\* and auto_reduce returns False, without an exception, without a pip attempt
\* or a build, and with every file and directory as the call found it.
C6_NoPackagesNoEffect ==
    (/\ call.name \in {"_analyze_package_deps", "auto_configure", "auto_reduce"}
     /\ call.entry.builder.pkgs = <<>>) =>
        /\ call.done /\ call.err = "none"
        /\ call.ret = IF call.name = "auto_reduce" THEN "False" ELSE "None"
        /\ Range(log) \cap {"pip", "process", "install_pkgs", "ziplib"} = {}
        /\ fs = call.entry.fs /\ out = call.entry.out
        /\ buildTmp = call.entry.buildTmp /\ pkgTemp = call.entry.pkgTemp
        /\ deps = call.entry.deps /\ builder = call.entry.builder
        /\ ar = NoFrame /\ pr = NoFrame

C6_Witness ==
    /\ call.name = "auto_configure" /\ call.done
    /\ builder.pkgs = <<>>
    /\ call.ret = "None" /\ out = NoManifest

OptionalModules ==
    {"_ctypes", "_curses", "_curses_panel", "_dbm", "resource", "syslog", "termios"}

\* C11: after shared_vanilla() on a newly constructed version config, every
\* module left in the static bucket is in must_stay_static, and every other
\* module that was static before the call is in the shared bucket.
C11_VanillaStaticToShared ==
    (cfgLog.phase = "variant" /\ cfgLog.method = "shared_vanilla") =>
        /\ cfg.err = "none"
        /\ Range(cfg.static) \subseteq
              {"_functools", "_locale", "_signal", "_sre", "_thread", "posix", "time",
               "_typing"}
        /\ \A mod \in Range(cfgLog.before.static) :
              mod \notin {"_functools", "_locale", "_signal", "_sre", "_thread", "posix",
                          "time", "_typing"}
                  => mod \in Range(cfg.shared)

C11_Witness ==
    /\ cfgLog.phase = "variant" /\ cfgLog.method = "shared_vanilla"
    /\ cfg.err = "none"
    /\ "_struct" \in Range(cfgLog.before.static)
    /\ "_struct" \in Range(cfg.shared)
    /\ "_typing" \in Range(cfg.static)

\* C12: after shared_vanilla(), none of _ctypes, _curses, _curses_panel, _dbm,
\* resource, syslog and termios is in the disabled bucket.
C12_VanillaEnablesOptional ==
    (cfgLog.phase = "variant" /\ cfgLog.method = "shared_vanilla") =>
        /\ cfg.err = "none"
        /\ OptionalModules \cap Range(cfg.disabled) = {}

C12_Witness ==
    /\ cfgLog.phase = "variant" /\ cfgLog.method = "shared_vanilla"
    /\ cfg.err = "none"
    /\ OptionalModules \cap Range(cfgLog.before.disabled) # {}
    /\ OptionalModules \cap Range(cfg.disabled) = {}

\* C13: the analysis result is computed from the set of all imported names:
\* stdlib_imports are the imports in STDLIB_MODULES and third_party the rest;
\* required_extensions are the STDLIB_TO_EXTENSION entries of the stdlib imports
\* and the stdlib imports that start with an underscore; needed_but_disabled is
\* required_extensions within the disabled bucket; potentially_unused is core,
\* static and shared minus required_extensions minus CORE_MODULES.
C13_AnalysisSets ==
    (/\ call.name \in {"_analyze_package_deps", "auto_configure"}
     /\ call.ret # "None") =>
        LET r == call.result
            mapped == {m \in r.stdlib_imports : m \in DOMAIN STDLIB_TO_EXTENSION}
            enabled == Range(call.config.core) \cup Range(call.config.static)
                       \cup Range(call.config.shared)
        IN  /\ r.stdlib_imports = call.imports \cap STDLIB_MODULES
            /\ r.third_party = call.imports \ STDLIB_MODULES
            /\ r.stdlib_imports \cup r.third_party = call.imports
            /\ r.stdlib_imports \cap r.third_party = {}
            /\ r.required_extensions =
                  UNION {STDLIB_TO_EXTENSION[m] : m \in mapped}
                  \cup {m \in r.stdlib_imports : starts_with_underscore(m)}
            /\ r.needed_but_disabled =
                  r.required_extensions \cap Range(call.config.disabled)
            /\ r.potentially_unused = (enabled \ r.required_extensions) \ CORE_MODULES

C13_Witness ==
    /\ call.name = "_analyze_package_deps" /\ call.ret = "AnalysisResult"
    /\ call.imports = {"json", "urllib3", "_ctypes"}
    /\ call.result.third_party = {"urllib3"}
    /\ call.result.required_extensions = {"_json", "_ctypes"}
    /\ call.result.needed_but_disabled = {"_ctypes"}
    /\ "_struct" \in call.result.potentially_unused

\* C14: auto_configure run a second time on the same builder, with the same
\* download outcomes and the same files, writes the manifest the first run
\* wrote and ends the same way; the builder, its class lists and the
\* module-level configuration table are as they were before the first run.
C14_AutoConfigureTwice ==
    (call.name = "auto_configure" /\ call.run = 2) =>
        /\ out = call.first.out
        /\ call.ret = call.first.ret
        /\ call.err = call.first.err
        /\ builder = call.entry.builder
        /\ cls = ClassInit
        /\ base = BASE_CONFIG

C14_Witness ==
    /\ call.name = "auto_configure" /\ call.run = 2
    /\ call.ret = "manifest path"
    /\ out.exists /\ out = call.first.out
    /\ out.extensions_to_remove # {}
    /\ out.required_extensions # {}

\* the pip commands tried are the first ones of pip3, pip, python -m pip, up to
\* and including the first that exited with status zero
C15_TriedInOrder ==
    (/\ call.name \in {"_analyze_package_deps", "auto_configure"}
     /\ call.entry.builder.pkgs # <<>>) =>
        LET tried == call.result.tried
            n == Len(tried)
        IN  /\ n \in 1..3
            /\ tried = SubSeq(<<"pip3", "pip", "python -m pip">>, 1, n)
            /\ \A i \in 1..(n - 1) : call.outcomes[i] # "ok"
            /\ n < 3 => call.outcomes[n] = "ok"
            /\ log = <<"analyze">> \o [i \in 1..n |-> "pip"]

\* when no attempt exits with status zero the analysis still returns a result,
\* with no file analyzed
C15_ResultWithoutDownload ==
    (/\ call.name \in {"_analyze_package_deps", "auto_configure"}
     /\ call.entry.builder.pkgs # <<>>
     /\ \A i \in 1..3 : call.outcomes[i] # "ok") =>
        /\ call.err = "none"
        /\ call.ret # "None"
        /\ call.result.kind = "result"
        /\ call.result.files_analyzed = 0

\* C15: the package download tries pip3, pip and python -m pip in this order,
\* stops at the first attempt that exits with status zero, and the analysis
\* still returns a result, with zero files analyzed, when every attempt fails
\* or is not found.
C15_PipFallback == C15_TriedInOrder /\ C15_ResultWithoutDownload


\* C16: dry_run() calls none of setup, configure, build, install, ziplib or
\* install_pkgs, and leaves the builder's fields, the class-level
\* config_options and remove_patterns lists, the build trees, the sources and
\* the module-level table as they were: whatever it returns or raises.
C16_DryRunChangesNothing ==
    call.name = "dry_run" =>
        /\ builder = call.entry.builder
        /\ cls = call.cls0
        /\ base = call.base0
        /\ fs = call.entry.fs
        /\ deps = call.entry.deps
        /\ out = call.entry.out
        /\ buildTmp = call.entry.buildTmp /\ pkgTemp = call.entry.pkgTemp
        /\ log = Append(call.log0, "dry_run")

\* a plan was printed with more options than the class-level list holds
C16_Witness ==
    /\ call.name = "dry_run" /\ call.err = "none" /\ call.shown.printed
    /\ Len(call.shown.options) > Len(cls.config_options)
    /\ builder.pkgs # <<>> /\ builder.install_dir = CustomDir

\* C20: once dry_run() has printed its plan and configure() has run
\* ./configure for the same builder, the set of options displayed is the set
\* of options passed.
C20_DryRunShowsConfigureOptions ==
    (call.shown.printed /\ call.passed.ran) =>
        Range(call.shown.options) = Range(call.passed.options)


\* a call of download() with a checksum has ended
ChecksumSupplied == dlCall.called /\ truthy(dlCall.checksum)

\* the file at the destination path has the digest asked for
DestMatches ==
    /\ dest.kind = "file" /\ supported(dlCall.algo)
    /\ hexdigest(dlCall.algo, dest.content) = lower(dlCall.checksum)

\* the cached file the call found did not have the digest asked for
CachedMismatch ==
    /\ dlCall.tofolder /\ dlCall.before.kind = "file" /\ supported(dlCall.algo)
    /\ hexdigest(dlCall.algo, dlCall.before.content) # lower(dlCall.checksum)

\* C17: when a checksum is supplied, download() either returns the path of a
\* file whose digest matches the checksum (a cached file is reused only if it
\* matches, otherwise it is deleted and fetched again) or raises DownloadError
\* leaving no file at the destination path.
C17_ChecksummedDownload ==
    ChecksumSupplied =>
        \/ /\ dlCall.err = "none" /\ dlCall.ret = "path" /\ DestMatches
           /\ CachedMismatch => dlCall.unlinked /\ dlCall.fetched
        \/ /\ dlCall.err = "DownloadError" /\ dest = NoFile
           /\ CachedMismatch => dlCall.unlinked /\ dlCall.fetched


\* the calls of a process() that runs the whole build, in the order of its code
ProcessOrder(b) ==
    <<"process", "dependency", "dependency", "dependency", "pre_process", "setup",
      "configure", "build", "install", "clean">>
    \o (IF b.skip_ziplib THEN <<>> ELSE <<"ziplib">>)
    \o (IF b.pkgs # <<>> /\ ~b.skip_pkg_install THEN <<"install_pkgs">> ELSE <<>>)
    \o <<"post_process">>

\* C18: process() does nothing when every dependency's library and the python
\* build are already there (can_run() is false); otherwise the calls made so
\* far are a prefix of: the three dependencies' process(), pre_process, setup,
\* configure, build, install, clean, ziplib unless skip_ziplib, install_pkgs
\* when packages are wanted, post_process; a call that returned made them all,
\* and a step that raised ended the call.
C18_ProcessOrder ==
    call.name = "process" =>
        LET e == call.entry
            depsBuilt == \A n \in Range(DepNames) :
                             e.deps[n].lib_products \subseteq e.deps[n].present
            t == TreeAt(e.fs, prefix(e.builder, platform))
            order == ProcessOrder(e.builder)
        IN  IF depsBuilt /\ t.exists /\ t.bin
            THEN /\ log = <<"process">> /\ call.done /\ call.err = "none"
                 /\ fs = e.fs /\ deps = e.deps /\ buildTmp = e.buildTmp
                 /\ builder = e.builder /\ cls = ClassInit
            ELSE /\ Len(log) <= Len(order)
                 /\ log = SubSeq(order, 1, Len(log))
                 /\ (call.done /\ call.err = "none") => log = order
                 /\ call.err # "none" => call.done /\ pr.pc = "raised"

\* a whole run with ziplib and install_pkgs has returned
C18_Witness ==
    /\ call.name = "process" /\ call.done /\ call.err = "none" /\ pr.ran
    /\ ~builder.skip_ziplib /\ builder.pkgs # <<>>
    /\ log = ProcessOrder(builder)


\* the reduction sets just produced: the manifest auto_configure wrote and the
\* one auto_reduce made from its analysis and keeps for its later steps
ReductionSets ==
    (IF out.exists THEN {out} ELSE {})
    \cup (IF ar.pc = "prepare" THEN {ar.manifest} ELSE {})

\* the names a module's file can have in lib-dynload
DynloadNames(m) == {<<m, SoTag, "so">>, <<m, "abi3", "so">>}

\* C19: the reduction set of auto_configure and of auto_reduce lists no member
\* of CORE_MODULES and no member of required_extensions in
\* extensions_to_remove, every extension pattern comes from a module in
\* extensions_to_remove, and no pattern matches the lib-dynload file of a core
\* or required extension module.
C19_KeepsCoreAndRequired ==
    \A m \in ReductionSets :
        LET kept == CORE_MODULES \cup m.required_extensions
        IN  /\ m.extensions_to_remove \cap kept = {}
            /\ \A p \in m.extension_patterns : p.stem \in m.extensions_to_remove
            /\ \A p \in m.extension_patterns, y \in kept :
                   \A name \in DynloadNames(y) : ~glob_match(p, name)

\* auto_reduce has made a reduction set while the packages need _json
C19_Witness ==
    /\ call.name = "auto_reduce" /\ ar.pc = "prepare"
    /\ "_json" \in ar.manifest.required_extensions
    /\ ar.manifest.extensions_to_remove # {}
    /\ ar.manifest.extension_patterns # {}


\* C21: when --dry-run is passed to main, the run shows the build plan and
\* exits, and process(), ziplib(), auto_reduce(), apply_reductions() and the
\* config-file writers are never invoked, whatever other flags are present.
C21_DryRunOnlyShowsPlan ==
    (call.name = "main" /\ call.args.dry_run) =>
        /\ "dry_run" \in Range(log)
        /\ call.exit = "0"
        /\ Range(log) \cap {"process", "ziplib", "auto_reduce", "apply_reductions",
                            "write", "write_json", "remove"} = {}


\* a path that is not the destination directory or below it
OutsideDest(p) == ~(Len(p) >= Len(DestDir) /\ SubSeq(p, 1, Len(DestDir)) = DestDir)

\* where a symlink created at a path leads: a relative name is taken from the
\* directory the link is in
LeadsTo(e) ==
    resolve(IF e.linkname.abs THEN e.linkname.parts
            ELSE SubSeq(e.at, 1, Len(e.at) - 1) \o e.linkname.parts)

\* C22: _safe_extract_tar never extracts a member whose resolved path lies
\* outside the destination directory (it raises ExtractionError and extracts
\* nothing), and a symlink member whose target resolves outside the
\* destination is not created by the extraction.
C22_ExtractsInsideOnly ==
    call.name = "_safe_extract_tar" =>
        /\ (\E i \in 1..Len(call.members) :
                OutsideDest(resolve(DestDir \o call.members[i].name)))
               => call.err = "ExtractionError" /\ unpacked = {}
        /\ \A e \in unpacked : ~OutsideDest(e.at)
        /\ \A e \in unpacked : e.type = "sym" => ~OutsideDest(LeadsTo(e))


\* the modules shared_vanilla takes out of the disabled bucket
ReEnabledModules ==
    {"_ctypes", "_curses", "_curses_panel", "_dbm", "_scproxy", "_tkinter", "resource",
     "syslog", "termios"}

\* C23: after shared_vanilla(), every module that is not disabled and is
\* neither in the core bucket nor in the must-stay-static set is listed in the
\* shared bucket, the modules re-enabled from disabled among them (_ctypes,
\* _curses, _curses_panel, _dbm, _scproxy, _tkinter, resource, syslog, termios).
C23_VanillaListsAllShared ==
    (cfgLog.phase = "variant" /\ cfgLog.method = "shared_vanilla" /\ cfg.err = "none") =>
        \A mod \in BucketUnion(cfgLog.before) \cup ReEnabledModules :
            (/\ mod \notin Range(cfg.disabled)
             /\ mod \notin Range(cfg.core)
             /\ mod \notin {"_functools", "_locale", "_signal", "_sre", "_thread", "posix",
                             "time", "_typing"})
                => mod \in Range(cfg.shared)


\* C24: for every supported version, every platform and every variant,
\* constructing the version's config and then applying the variant once
\* completes without raising.
C24_ConstructAndVariantNeverRaise ==
    (cfgLog.phase \in {"constructed", "variant"} /\ cfgLog.ver \in SupportedVersions) =>
        cfg.err = "none"


\* the four buckets one after the other
AllListed(c) == c.core \o c.static \o c.shared \o c.disabled

\* C25: in every config state reached by constructing a version config and
\* applying a variant method, no module is listed twice: the four buckets are
\* pairwise disjoint and none holds a duplicate.
C25_BucketsDisjoint ==
    cfgLog.phase \in {"constructed", "variant"} =>
        Len(AllListed(cfg)) = Cardinality(Range(AllListed(cfg)))

\* static_bootstrap has emptied core into static and static into disabled on
\* a 3.14 config
C25_Witness ==
    /\ cfgLog.phase = "variant" /\ cfgLog.method = "static_bootstrap"
    /\ cfgLog.ver = "3.14" /\ cfg.err = "none"
    /\ cfg.core = <<>> /\ cfg.static = cfgLog.before.core
    /\ Len(cfg.disabled) = Len(cfgLog.before.disabled) + Len(cfgLog.before.static)

\* C26: whenever config construction and a variant method complete, every
\* module listed in the core, static or shared bucket has a build rule in the
\* extensions table.
C26_EnabledHaveRules ==
    (cfgLog.phase \in {"constructed", "variant"} /\ cfg.err = "none") =>
        \A n \in Range(cfg.core) \cup Range(cfg.static) \cup Range(cfg.shared) :
            n \in DOMAIN cfg.extensions

\* a variant of a 3.13 config lists a module whose rule the 3.13 patch added
C26_Witness ==
    /\ cfgLog.phase = "variant" /\ cfgLog.ver = "3.13" /\ cfg.err = "none"
    /\ "_interpreters" \in Range(cfg.shared)
    /\ "_interpreters" \in DOMAIN cfg.extensions
    /\ "_sha2" \in Range(cfg.shared)

\* C27: in every supported version's constructed configuration, each extension
\* name listed in a STDLIB_TO_EXTENSION entry has a rule in the configuration's
\* extensions table, so an import of the mapped standard-library module marks
\* the extensions that back it in that version as required.
MappedExtensions == UNION {STDLIB_TO_EXTENSION[k] : k \in DOMAIN STDLIB_TO_EXTENSION}

C27_MappedExtensionsInTable ==
    (cfgLog.phase = "constructed" /\ cfg.err = "none"
        /\ cfgLog.ver \in SupportedVersions) =>
        MappedExtensions \subseteq DOMAIN cfg.extensions

\* C28: configure() changes only the builder it is called on: after any
\* sequence of configure() calls the lists a different or newly constructed
\* PythonBuilder reads (config_options, remove_patterns) are the original
\* ones, and no option occurs twice after a second call.
C28_ConfigureKeepsClassLists ==
    call.name = "configure" =>
        /\ cls = ClassInit
        /\ Len(cls.config_options) = Cardinality(Range(cls.config_options))
        /\ Len(cls.remove_patterns) = Cardinality(Range(cls.remove_patterns))

\* C29: after ziplib() completes on a Unix build, the stdlib directory holds
\* exactly lib-dynload with the contents it had before the call, an empty
\* site-packages and the os module (os.pyc when precompiling, os.py
\* otherwise); the zip archive exists; and nothing is left at build/lib-dynload
\* and build/os.py or build/os.pyc.
C29_ZiplibLayout ==
    (call.name = "ziplib" /\ call.err = "none") =>
        LET t == TreeAt(fs, prefix(builder, platform))
        IN  /\ t.dynload = call.before
            /\ t.site = EmptyDir
            /\ t.stdlib = {IF builder.precompile THEN "os.pyc" ELSE "os.py"}
            /\ t.zip
            /\ buildTmp = NoTemp

\* C30: once the vanilla cache directory exists, no step of auto_reduce
\* outside the build of the cache itself changes it: the copy, the package
\* installation, the removals, ziplib and the restoration of the packages
\* leave install/python-shared-vanilla as it was.
C30_CacheNeverModified ==
    [][(call.name = "auto_reduce" /\ ar.pc # "building"
            /\ TreeAt(fs, VanillaCache).exists) =>
        TreeAt(fs', VanillaCache) = TreeAt(fs, VanillaCache)]_vars

\* an auto_reduce that found the cache has reduced and zipped the copy, which
\* now differs from the cache
C30_Witness ==
    /\ call.name = "auto_reduce" /\ ar.pc = "verify"
    /\ TreeAt(call.entry.fs, VanillaCache).exists
    /\ TreeAt(fs, ReducedPrefix).zip
    /\ TreeAt(fs, ReducedPrefix) # TreeAt(fs, VanillaCache)
    /\ TreeAt(fs, VanillaCache) = TreeAt(call.entry.fs, VanillaCache)

============================================================================
